---- MODULE Spec2Model ----
(***************************************************************************)
(* A model of ansible-runner's artifact writer                             *)
(* (ansible_runner/_internal/_dump_artifacts.py) and of its container      *)
(* command builder (ansible_runner/containers/base.py).                    *)
(*                                                                         *)
(* Part 1 models dump_artifact as run by several host processes on one     *)
(* directory, for one caller-specified filename or for no filename, one    *)
(* action per system call.  Part 2 models BaseEngine.default_args as a     *)
(* sequence of steps over the argument list it accumulates.  Part 3 models *)
(* BaseEngine._generate_container_auth_dir, one action per system call,    *)
(* and part 4 models dump_artifacts, one action per block of the function. *)
(***************************************************************************)
EXTENDS Integers, Sequences, FiniteSets, TLC

(***************************************************************************)
(* Bounds of the model.                                                    *)
(***************************************************************************)
NProcs == 2
MaxCalls == 3
MaxSeqCalls == 3
MaxContentLen == 2
MaxArgs == 3
MaxMounts == 2
MaxAuthCalls == 2

VARIABLES
    \* ---- part 1: dump_artifact ----
    pc,          \* per process: the line of dump_artifact it is about to run
    obj,         \* per process: the `obj` argument of the call in progress
    c_sha1,      \* per process: the local c_sha1 ("unbound" until line 105)
    lock_fd,     \* per process: inode behind its open lock_fd (0: none)
    holds,       \* per process: whether it holds the lockf lock on lock_fd
    raised,      \* per process: exception of the current/last call ("none")
    calls,       \* number of calls of dump_artifact begun so far
    wrote,       \* per process: whether the current/last call reached line 112
    dir_exists,  \* whether `path` exists
    file,        \* the file `fn` = path/filename
    sentinel,    \* inode linked at path/.artifact_write_lock (0: no such file)
    next_ino,    \* next fresh inode number
    io_faulty,   \* whether opening or writing `fn` can fail in this run
    filename,    \* per process: the `filename` argument ("f", or "None")
    fn,          \* per process: 0 for path/filename, k for the k-th temporary file
    tmp_files,   \* the files tempfile.mkstemp made in `path`, in order
    \* ---- part 2: BaseEngine.default_args ----
    b_pc,        \* the line of default_args about to run ("done", "raised")
    b_exc,       \* the exception default_args raised ("none")
    config,      \* self.config
    call,        \* the arguments: args, execution_mode, cmdline_args
    os_environ,  \* os.environ
    fs,          \* the host file system: its directories and files
    new_args,    \* the argument list being built
    \* ---- part 3: BaseEngine._generate_container_auth_dir ----
    a_pc,        \* the line about to run ("idle": no call in progress)
    a_call,      \* the engine and the auth_data of the call in progress
    a_locals,    \* the locals path, registry_auth_path, registries_conf_path
    a_tmp,       \* the temporary directories and the files in them
    a_log,       \* what the calls so far returned
    \* ---- part 4: dump_artifacts ----
    d_pc,        \* the line of dump_artifacts about to run ("done")
    d_config,    \* the RunnerConfig given to dump_artifacts
    d_fs,        \* the host file system, with the contents written
    d_calls      \* the calls of dump_artifact made so far

nameVars == <<filename, fn, tmp_files>>

writerVars == <<pc, obj, c_sha1, lock_fd, holds, raised, calls, wrote,
                dir_exists, file, sentinel, next_ino, io_faulty, nameVars>>

builderVars == <<b_pc, b_exc, config, call, os_environ, fs, new_args>>

authVars == <<a_pc, a_call, a_locals, a_tmp, a_log>>

dumperVars == <<d_pc, d_config, d_fs, d_calls>>

vars == <<writerVars, builderVars, authVars, dumperVars>>

(***************************************************************************)
(* Contents.  A string is a sequence of characters; "CR" and "LF" are the  *)
(* carriage return and the line feed.                                      *)
(***************************************************************************)
Chars == {"a", "CR", "LF"}

RECURSIVE SeqsUpTo(_, _)
SeqsUpTo(S, n) ==
    IF n = 0 THEN {<<>>}
    ELSE LET shorter == SeqsUpTo(S, n - 1)
         IN  shorter \cup {Append(s, x) : s \in shorter, x \in S}

\* The contents a sequential caller passes, and those concurrent callers pass:
\* two contents of different lengths with no character in common.
SeqContents == SeqsUpTo(Chars, MaxContentLen)
ConcContents == {<<"a", "a">>, <<"LF">>}

Procs == 1..NProcs

\* open(fn).read(): text mode with universal newlines turns "\r\n" and a lone
\* "\r" into "\n".
RECURSIVE ReadText(_)
ReadText(bytes) ==
    IF bytes = <<>> THEN <<>>
    ELSE IF Head(bytes) = "CR"
         THEN IF Len(bytes) >= 2 /\ bytes[2] = "LF"
              THEN <<"LF">> \o ReadText(Tail(Tail(bytes)))
              ELSE <<"LF">> \o ReadText(Tail(bytes))
         ELSE <<Head(bytes)>> \o ReadText(Tail(bytes))

\* f.write(str(obj)) on POSIX: "\n" is written as os.linesep = "\n", every
\* other character as itself.
WriteText(s) == s

\* hashlib.sha1(s.encode('UTF-8')).hexdigest(): only equality of digests is
\* used; distinct short strings have distinct digests.
Sha1Hexdigest(s) == <<"sha1", s>>

\* A write of `data` at offset 0 of a file holding `old`.
WriteAt0(old, data) ==
    IF Len(data) >= Len(old) THEN data
    ELSE data \o SubSeq(old, Len(data) + 1, Len(old))

NoFile == [exists |-> FALSE, content |-> <<>>, mode |-> "none"]

(***************************************************************************)
(* dump_artifact(obj, path, filename).                                     *)
(***************************************************************************)
WriterInit ==
    /\ pc = [p \in Procs |-> "idle"]
    /\ obj = [p \in Procs |-> <<>>]
    /\ c_sha1 = [p \in Procs |-> "unbound"]
    /\ lock_fd = [p \in Procs |-> 0]
    /\ holds = [p \in Procs |-> FALSE]
    /\ raised = [p \in Procs |-> "none"]
    /\ calls = 0
    /\ wrote = [p \in Procs |-> FALSE]
    /\ dir_exists \in BOOLEAN
    /\ file = NoFile
    /\ sentinel = 0
    /\ next_ino = 1
    /\ io_faulty \in BOOLEAN
    /\ filename = [p \in Procs |-> "f"]
    /\ fn = [p \in Procs |-> 0]
    /\ tmp_files = <<>>

\* The call dump_artifact(o, path, name): locals are fresh.
BeginWith(p, o, name, limit) ==
    /\ pc[p] = "idle"
    /\ calls < limit
    /\ pc' = [pc EXCEPT ![p] = "L93"]
    /\ obj' = [obj EXCEPT ![p] = o]
    /\ filename' = [filename EXCEPT ![p] = name]
    /\ fn' = [fn EXCEPT ![p] = 0]
    /\ c_sha1' = [c_sha1 EXCEPT ![p] = "unbound"]
    /\ raised' = [raised EXCEPT ![p] = "none"]
    /\ wrote' = [wrote EXCEPT ![p] = FALSE]
    /\ calls' = calls + 1
    /\ UNCHANGED <<lock_fd, holds, dir_exists, file, sentinel, next_ino, io_faulty,
                   tmp_files, builderVars, authVars, dumperVars>>

\* The call with a filename given.
Begin(p, o, limit) == BeginWith(p, o, "f", limit)

\* The file fn names for the process.
FileOf(p) == IF fn[p] = 0 THEN file ELSE tmp_files[fn[p]]

\* The file fn names for the process becomes f.
SetFile(p, f) ==
    IF fn[p] = 0
    THEN /\ file' = f
         /\ UNCHANGED tmp_files
    ELSE /\ tmp_files' = [tmp_files EXCEPT ![fn[p]] = f]
         /\ UNCHANGED file

\* line 100: the file tempfile.mkstemp(dir=path) creates: empty, mode 0600,
\* under a name no file of the directory has.
MkStemp == [exists |-> TRUE, content |-> <<>>, mode |-> "0600"]

\* line 93: if not os.path.exists(path)
CheckDir(p) ==
    /\ pc[p] = "L93"
    /\ pc' = [pc EXCEPT ![p] = IF dir_exists THEN "L98" ELSE "L94"]
    /\ UNCHANGED <<obj, c_sha1, lock_fd, holds, raised, calls, wrote,
                   dir_exists, file, sentinel, next_ino, io_faulty,
                   nameVars, builderVars, authVars, dumperVars>>

\* line 94: os.makedirs(path, mode=0o700); FileExistsError if it exists by now
MakeDirs(p) ==
    /\ pc[p] = "L94"
    /\ IF dir_exists
       THEN /\ raised' = [raised EXCEPT ![p] = "FileExistsError"]
            /\ pc' = [pc EXCEPT ![p] = "idle"]
            /\ UNCHANGED dir_exists
       ELSE /\ dir_exists' = TRUE
            /\ pc' = [pc EXCEPT ![p] = "L98"]
            /\ UNCHANGED raised
    /\ UNCHANGED <<obj, c_sha1, lock_fd, holds, calls, wrote, file, sentinel,
                   next_ino, io_faulty,
                   nameVars, builderVars, authVars, dumperVars>>

\* lines 98-108: fn is the file mkstemp creates if filename is None, else
\* path/filename; then if os.path.exists(fn): c_sha1 = sha1 of open(fn).read()
ReadExisting(p) ==
    /\ pc[p] = "L98"
    /\ IF filename[p] = "None"
       THEN /\ tmp_files' = Append(tmp_files, MkStemp)
            /\ fn' = [fn EXCEPT ![p] = Len(tmp_files) + 1]
            /\ c_sha1' = [c_sha1 EXCEPT ![p] =
                            Sha1Hexdigest(ReadText(MkStemp.content))]
       ELSE /\ c_sha1' = [c_sha1 EXCEPT ![p] =
                            IF file.exists
                            THEN Sha1Hexdigest(ReadText(file.content))
                            ELSE @]
            /\ UNCHANGED <<fn, tmp_files>>
    /\ pc' = [pc EXCEPT ![p] = "L110"]
    /\ UNCHANGED <<obj, lock_fd, holds, raised, calls, wrote, dir_exists, file,
                   sentinel, next_ino, io_faulty, filename,
                   builderVars, authVars, dumperVars>>

\* Line 110 deciding to write whatever the file holds.
NeedsWrite_Always(exists, p_digest, c_digest) == TRUE

\* line 110: if not os.path.exists(fn) or p_sha1.hexdigest() != c_sha1.hexdigest()
\* (else line 124: return fn).  c_sha1 is read only when fn exists now.
NeedsWrite(exists, p_digest, c_digest) ==
    (~exists) \/ p_digest # c_digest

Decide(p) ==
    /\ pc[p] = "L110"
    /\ IF FileOf(p).exists /\ c_sha1[p] = "unbound"
       THEN /\ raised' = [raised EXCEPT ![p] = "UnboundLocalError"]
            /\ pc' = [pc EXCEPT ![p] = "idle"]
            /\ UNCHANGED wrote
       ELSE IF NeedsWrite(FileOf(p).exists, Sha1Hexdigest(obj[p]), c_sha1[p])
            THEN /\ pc' = [pc EXCEPT ![p] = "L112"]
                 /\ wrote' = [wrote EXCEPT ![p] = TRUE]
                 /\ UNCHANGED raised
            ELSE /\ pc' = [pc EXCEPT ![p] = "idle"]
                 /\ UNCHANGED <<raised, wrote>>
    /\ UNCHANGED <<obj, c_sha1, lock_fd, holds, calls, dir_exists, file,
                   sentinel, next_ino, io_faulty,
                   nameVars, builderVars, authVars, dumperVars>>

\* line 112: lock_fd = os.open(lock_fp, os.O_RDWR | os.O_CREAT, 0o600)
OpenSentinel(p) ==
    /\ pc[p] = "L112"
    /\ IF sentinel = 0
       THEN /\ sentinel' = next_ino
            /\ next_ino' = next_ino + 1
            /\ lock_fd' = [lock_fd EXCEPT ![p] = next_ino]
       ELSE /\ lock_fd' = [lock_fd EXCEPT ![p] = sentinel]
            /\ UNCHANGED <<sentinel, next_ino, io_faulty,
                   nameVars, builderVars, authVars, dumperVars>>
    /\ pc' = [pc EXCEPT ![p] = "L113"]
    /\ UNCHANGED <<obj, c_sha1, holds, raised, calls, wrote, dir_exists, file,
                   io_faulty,
                   nameVars, builderVars, authVars, dumperVars>>

\* line 113: fcntl.lockf(lock_fd, fcntl.LOCK_EX): blocks while another process
\* holds the lock on the same inode.
LockFree(p) ==
    \A q \in Procs \ {p} : ~(holds[q] /\ lock_fd[q] = lock_fd[p])

Lock(p) ==
    /\ pc[p] = "L113"
    /\ LockFree(p)
    /\ holds' = [holds EXCEPT ![p] = TRUE]
    /\ pc' = [pc EXCEPT ![p] = "L116"]
    /\ UNCHANGED <<obj, c_sha1, lock_fd, raised, calls, wrote, dir_exists,
                   file, sentinel, next_ino, io_faulty,
                   nameVars, builderVars, authVars, dumperVars>>

\* The outcomes of an I/O call on `fn`: success, or failure where it can fail.
IoOutcomes == IF io_faulty THEN BOOLEAN ELSE {TRUE}

\* line 116: with open(fn, 'w') as f: creates or truncates; may fail (OSError),
\* which enters the finally clause with the exception pending.
OpenTarget(p) ==
    /\ pc[p] = "L116"
    /\ \E ok \in IoOutcomes :
         IF ok
         THEN /\ SetFile(p, [exists |-> TRUE, content |-> <<>>,
                              mode |-> IF FileOf(p).exists THEN FileOf(p).mode
                                       ELSE "umask"])
              /\ pc' = [pc EXCEPT ![p] = "L117"]
              /\ UNCHANGED raised
         ELSE /\ raised' = [raised EXCEPT ![p] = "OSError"]
              /\ pc' = [pc EXCEPT ![p] = "L120"]
              /\ UNCHANGED <<file, tmp_files>>
    /\ UNCHANGED <<obj, c_sha1, lock_fd, holds, calls, wrote, dir_exists,
                   sentinel, next_ino, io_faulty, filename, fn,
                   builderVars, authVars, dumperVars>>

\* The os.chmod of line 117 left out.
Chmod_Skipped(p) ==
    /\ pc[p] = "L117"
    /\ pc' = [pc EXCEPT ![p] = "L118"]
    /\ UNCHANGED <<obj, c_sha1, lock_fd, holds, raised, calls, wrote,
                   dir_exists, file, sentinel, next_ino, io_faulty, nameVars,
                   builderVars, authVars, dumperVars>>

\* line 117: os.chmod(fn, stat.S_IRUSR | stat.S_IWUSR)
Chmod(p) ==
    /\ pc[p] = "L117"
    /\ SetFile(p, [FileOf(p) EXCEPT !.mode = "0600"])
    /\ pc' = [pc EXCEPT ![p] = "L118"]
    /\ UNCHANGED <<obj, c_sha1, lock_fd, holds, raised, calls, wrote,
                   dir_exists, sentinel, next_ino, io_faulty, filename, fn,
                   builderVars, authVars, dumperVars>>

\* line 118 and the end of the with block: f.write(str(obj)), flushed at
\* offset 0 when the file is closed; may fail (OSError).
WriteTarget(p) ==
    /\ pc[p] = "L118"
    /\ \E ok \in IoOutcomes :
         IF ok
         THEN /\ SetFile(p, [FileOf(p) EXCEPT
                                 !.content = WriteAt0(@, WriteText(obj[p]))])
              /\ UNCHANGED raised
         ELSE /\ raised' = [raised EXCEPT ![p] = "OSError"]
              /\ UNCHANGED <<file, tmp_files>>
    /\ pc' = [pc EXCEPT ![p] = "L120"]
    /\ UNCHANGED <<obj, c_sha1, lock_fd, holds, calls, wrote, dir_exists,
                   sentinel, next_ino, io_faulty, filename, fn,
                   builderVars, authVars, dumperVars>>

\* line 120: fcntl.lockf(lock_fd, fcntl.LOCK_UN)
Unlock(p) ==
    /\ pc[p] = "L120"
    /\ holds' = [holds EXCEPT ![p] = FALSE]
    /\ pc' = [pc EXCEPT ![p] = "L121"]
    /\ UNCHANGED <<obj, c_sha1, lock_fd, raised, calls, wrote, dir_exists,
                   file, sentinel, next_ino, io_faulty,
                   nameVars, builderVars, authVars, dumperVars>>

\* line 121: os.close(lock_fd)
CloseSentinel(p) ==
    /\ pc[p] = "L121"
    /\ lock_fd' = [lock_fd EXCEPT ![p] = 0]
    /\ pc' = [pc EXCEPT ![p] = "L122"]
    /\ UNCHANGED <<obj, c_sha1, holds, raised, calls, wrote, dir_exists, file,
                   sentinel, next_ino, io_faulty,
                   nameVars, builderVars, authVars, dumperVars>>

\* The os.remove of line 122 left out.
RemoveSentinel_Skipped(p) ==
    /\ pc[p] = "L122"
    /\ pc' = [pc EXCEPT ![p] = "idle"]
    /\ UNCHANGED <<obj, c_sha1, lock_fd, holds, raised, calls, wrote,
                   dir_exists, file, sentinel, next_ino, io_faulty,
                   nameVars, builderVars, authVars, dumperVars>>

\* line 122: os.remove(lock_fp): unlinks whatever is linked at the path now;
\* FileNotFoundError if nothing is.  Then the pending exception propagates, or
\* line 124 returns fn.
RemoveSentinel(p) ==
    /\ pc[p] = "L122"
    /\ IF sentinel = 0
       THEN /\ raised' = [raised EXCEPT ![p] = "FileNotFoundError"]
            /\ UNCHANGED sentinel
       ELSE /\ sentinel' = 0
            /\ UNCHANGED raised
    /\ pc' = [pc EXCEPT ![p] = "idle"]
    /\ UNCHANGED <<obj, c_sha1, lock_fd, holds, calls, wrote, dir_exists, file,
                   next_ino, io_faulty,
                   nameVars, builderVars, authVars, dumperVars>>

WriterStep(p) ==
    \/ CheckDir(p)
    \/ MakeDirs(p)
    \/ ReadExisting(p)
    \/ Decide(p)
    \/ OpenSentinel(p)
    \/ Lock(p)
    \/ OpenTarget(p)
    \/ Chmod(p)
    \/ WriteTarget(p)
    \/ Unlock(p)
    \/ CloseSentinel(p)
    \/ RemoveSentinel(p)

(***************************************************************************)
(* Part 2: the container command builder (containers/base.py).             *)
(*                                                                         *)
(* A path string is a record: `lead` is its number of leading separators   *)
(* (0: a relative path, 3: three or more), `comps` its components, `trail` *)
(* whether a separator follows the last component.  "/" is                 *)
(* [lead 1, comps <<>>], "/home/" is [lead 1, comps <<"home">>, trail].    *)
(***************************************************************************)
Path(l, c, t) == [lead |-> l, comps |-> c, trail |-> t]
Abs(c) == Path(1, c, FALSE)
Rel(c) == Path(0, c, FALSE)
NoPath == Path(0, <<>>, FALSE)      \* the empty string, also used for None

Front(s) == SubSeq(s, 1, Len(s) - 1)

\* os.path.isabs
IsAbs(p) == p.lead >= 1

\* os.path.join(p, ""): a separator is appended unless p is empty or ends
\* with one already.
JoinEmpty(p) == IF p.comps = <<>> THEN p ELSE [p EXCEPT !.trail = TRUE]

\* os.path.join(a, b)
Join(a, b) ==
    IF IsAbs(b) THEN b
    ELSE IF a = NoPath THEN b
    ELSE Path(a.lead, a.comps \o b.comps, b.trail)

\* f"{a}/{name}": string concatenation, which is not os.path.join when `a`
\* already ends with a separator.
ConcatSlash(a, name) ==
    IF a.comps = <<>> \/ a.trail
    THEN IF a.comps = <<>>
         THEN Path(IF a.lead >= 2 THEN 3 ELSE a.lead + 1, <<name>>, FALSE)
         ELSE Path(a.lead, a.comps \o <<name>>, FALSE)   \* "a//name" ~ "a/name"
    ELSE Path(a.lead, a.comps \o <<name>>, FALSE)

\* os.path.dirname: everything up to the last separator, trailing separators
\* stripped unless nothing else is left.
Dirname(p) ==
    IF p.comps = <<>> THEN p
    ELSE IF p.trail THEN [p EXCEPT !.trail = FALSE]
    ELSE Path(p.lead, Front(p.comps), FALSE)

\* The working directory of the host process.
ProcCwd == <<"proj">>

\* os.path.normpath: exactly two leading separators are kept, three or more
\* become one; a trailing separator is dropped.
Normpath(p) ==
    Path(IF p.lead = 2 THEN 2 ELSE IF p.lead >= 1 THEN 1 ELSE 0, p.comps, FALSE)

\* os.path.abspath
Abspath(p) ==
    IF IsAbs(p) THEN Normpath(p) ELSE Normpath(Path(1, ProcCwd \o p.comps, FALSE))

\* os.path.expanduser(os.path.expandvars(p)): no path of the model holds a
\* "~" or a "$", and such a path is returned as it is.
ExpandUserVars(p) == p

\* The directory entry a path names: the kernel ignores repeated separators.
Canon(p) == IF p.lead = 0 THEN ProcCwd \o p.comps ELSE p.comps

\* The regular files and sockets of the host.
HostFiles == {
    <<"proj", "pb.yml">>,
    <<"d", "inv.yml">>,
    <<"c", "hosts,">>,
    <<"home", "k">>,
    <<"home", "agent.sock">>,
    <<"home", "u", "agent.sock">>,
    <<"run", "agent.sock">>,
    <<"etc", "ssh", "ssh_known_hosts">> }

\* The directories of the host before the build.
HostDirs == {
    <<>>, <<"home">>, <<"usr">>, <<"home", "u">>, <<"proj">>,
    <<"proj", "inv">>, <<"d">>, <<"c">>, <<"data">>, <<"run">>, <<"etc">>,
    <<"etc", "ssh">>, <<"home", "data">>, <<"home", "data", "artifacts">>,
    <<"home", "data", "artifacts", "ident">>, <<"home", "artifacts">>,
    <<"home", "artifacts", "ident">>, <<"usr", "artifacts">>,
    <<"usr", "artifacts", "ident">>, <<"art">>, <<"art", "ident">>, <<"tmp">> }

\* os.path.isdir, os.path.isfile, os.path.exists on the file system `dirs`,
\* a record of the directories and of the files that exist
IsDir(dirs, p) == p # NoPath /\ Canon(p) \in dirs.dirs
IsFile(dirs, p) == p # NoPath /\ ~p.trail /\ Canon(p) \in dirs.files
Exists(dirs, p) == IsDir(dirs, p) \/ IsFile(dirs, p)

(***************************************************************************)
(* Elements of an argument list.  Every element is a record of one shape:  *)
(* a plain string (Str), a string holding a path (PathArg, with the text   *)
(* before the path in `s`), or a formatted volume mount "src:dst[labels]". *)
(***************************************************************************)
Str(x) == [t |-> "str", s |-> x, a |-> NoPath, b |-> NoPath, l |-> ""]
PathArg(prefix, p) == [t |-> "path", s |-> prefix, a |-> p, b |-> NoPath, l |-> ""]
MountStr(src, dst, lab) == [t |-> "mount", s |-> "", a |-> src, b |-> dst, l |-> lab]

InList(x, list) == \E i \in 1..Len(list) : list[i] = x

\* The result of a call: the exception it raised ("none": it returned), and
\* the argument list as the call left it.
Ok(list) == [exc |-> "none", args |-> list]
Raise(e, list) == [exc |-> e, args |-> list]

\* lines 140-144: _ensure_path_safe_to_mount; TRUE when it raises
\* ConfigurationError.
ForbiddenMounts == { Path(1, <<>>, FALSE), Path(1, <<"home">>, TRUE),
                     Path(1, <<"usr">>, TRUE) }

EnsureRaises(dirs, path) ==
    LET p == IF IsFile(dirs, path) THEN Dirname(path) ELSE path
    IN  JoinEmpty(p) \in ForbiddenMounts

\* lines 212-215: the labels as appended to the formatted string
LabelSuffix(labels) ==
    CASE labels = "" -> ""
      [] labels = ":Z" -> ":Z"
      [] labels = "Z" -> ":Z"
      [] labels = ":ro" -> ":ro"
      [] labels = "ro" -> ":ro"
      [] OTHER -> labels

\* lines 179-201: the mount string for (src, dst, labels); dst = NoPath is
\* dst_mount_path = None.
DstPath(workdir, src_path, dst) ==
    IF dst = NoPath THEN src_path
    ELSE IF workdir # NoPath /\ ~IsAbs(dst)
         THEN Abspath(ExpandUserVars(Join(workdir, dst)))
         ELSE Abspath(ExpandUserVars(dst))

SrcDir(dirs, src) ==
    LET src_path == Abspath(ExpandUserVars(src))
    IN  JoinEmpty(IF IsDir(dirs, src_path) THEN src_path ELSE Dirname(src_path))

DstDir(dirs, workdir, src, dst) ==
    LET src_path == Abspath(ExpandUserVars(src))
        dst_path == DstPath(workdir, src_path, dst)
    IN  JoinEmpty(IF IsDir(dirs, src_path) THEN dst_path ELSE Dirname(dst_path))

VolumeMountPath(dirs, workdir, src, dst, labels) ==
    MountStr(SrcDir(dirs, src), DstDir(dirs, workdir, src, dst),
             LabelSuffix(labels))

\* The test of line 218 left out.
AppendMount_NoDedup(args_list, m) == args_list \o <<Str("-v"), m>>

\* lines 217-219: the mount is appended unless the string is in the list
AppendMount(args_list, m) ==
    IF InList(m, args_list) THEN args_list ELSE args_list \o <<Str("-v"), m>>

\* lines 203-206: both directories are checked
MountUnsafe(dirs, m) == EnsureRaises(dirs, m.a) \/ EnsureRaises(dirs, m.b)

\* lines 168-219: _update_volume_mount_paths; has_src = FALSE is
\* src_mount_path = None.
UpdateVolumeMountPaths(dirs, workdir, args_list, has_src, src, dst, labels) ==
    IF ~has_src \/ ~Exists(dirs, src) THEN Ok(args_list)
    ELSE LET m == VolumeMountPath(dirs, workdir, src, dst, labels)
         IN  IF MountUnsafe(dirs, m)
             THEN Raise("ConfigurationError", args_list)
             ELSE Ok(AppendMount(args_list, m))

(***************************************************************************)
(* Command-line tokens are strings; what the code reads of a token (its    *)
(* first character, its last character, the path it spells) is tabulated.  *)
(***************************************************************************)
inventory_file_options == <<"-i", "--inventory", "--inventory-file">>
vault_file_options == <<"--vault-password-file", "--vault-pass-file">>
private_key_file_options == <<"--private-key", "--key-file">>
optional_mount_args ==
    inventory_file_options \o vault_file_options \o private_key_file_options

Range(f) == {f[i] : i \in DOMAIN f}

DashTokens ==
    Range(optional_mount_args) \cup {"-h", "--help", "-e", "-v"}

\* arg[0]: "empty" stands for the IndexError of indexing an empty string
FirstChar(tok) ==
    IF tok = "" THEN "empty" ELSE IF tok \in DashTokens THEN "-" ELSE "other"

\* arg.endswith(',')
EndsWithComma(tok) == tok \in {"/c/hosts,", "localhost,"}

\* 'ansible-playbook' in value
ContainsAnsiblePlaybook(tok) == tok = "ansible-playbook"

\* The path a token spells.
TokenPath(tok) ==
    CASE tok = "" -> NoPath
      [] tok = "pb.yml" -> Rel(<<"pb.yml">>)
      [] tok = "inv" -> Rel(<<"inv">>)
      [] tok = "/d/inv.yml" -> Abs(<<"d", "inv.yml">>)
      [] tok = "/c/hosts," -> Abs(<<"c", "hosts,">>)
      [] tok = "/home/k" -> Abs(<<"home", "k">>)
      [] OTHER -> Rel(<<tok>>)

\* list.index(x), counted from 1; 0 stands for its ValueError
Index(list, x) ==
    IF \E i \in 1..Len(list) : list[i] = x
    THEN CHOOSE i \in 1..Len(list) :
             list[i] = x /\ \A j \in 1..(i - 1) : list[j] # x
    ELSE 0

\* list.pop(i), counted from 1: the list without its i-th element
Pop(list, i) == SubSeq(list, 1, i - 1) \o SubSeq(list, i + 1, Len(list))

\* lines 304-313: the loop of _get_playbook_path removing inventory options
\* and their values from the copy; `k` is the position in cmdline_args.
\* result: [exc, none (the function returned None), copy]
RECURSIVE BookKeeping(_, _, _)
BookKeeping(cmdline_args, k, copy) ==
    IF k > Len(cmdline_args) THEN [exc |-> "none", none |-> FALSE, copy |-> copy]
    ELSE IF cmdline_args[k] \notin Range(inventory_file_options)
         THEN BookKeeping(cmdline_args, k + 1, copy)
         ELSE LET i == Index(copy, cmdline_args[k])
              IN  IF i = 0
                  THEN [exc |-> "ValueError", none |-> FALSE, copy |-> copy]
                  ELSE IF i > Len(Pop(copy, i))
                       THEN [exc |-> "none", none |-> TRUE, copy |-> Pop(copy, i)]
                       ELSE BookKeeping(cmdline_args, k + 1, Pop(Pop(copy, i), i))

\* lines 324-329: the scan of _book_keeping_copy[1:]; `j` is the position in
\* the copy.  result: [exc, val]
RECURSIVE ScanForPlaybook(_, _)
ScanForPlaybook(copy, j) ==
    IF j > Len(copy) THEN [exc |-> "none", val |-> ""]
    ELSE IF FirstChar(copy[j]) = "empty" THEN [exc |-> "IndexError", val |-> ""]
    ELSE IF FirstChar(copy[j]) = "-" THEN ScanForPlaybook(copy, j + 1)
    ELSE LET prev == copy[Index(copy, copy[j]) - 1]
         IN  IF FirstChar(prev) = "empty" THEN [exc |-> "IndexError", val |-> ""]
             ELSE IF FirstChar(prev) # "-" THEN [exc |-> "none", val |-> copy[j]]
             ELSE ScanForPlaybook(copy, j + 1)

\* lines 301-331: _get_playbook_path.  result: [exc, none, val]; val = "" with
\* none = FALSE is the empty string _playbook starts as.
GetPlaybookPath(cmdline_args) ==
    LET bk == BookKeeping(cmdline_args, 1, cmdline_args)
        copy == bk.copy
    IN  IF bk.exc # "none" THEN [exc |-> bk.exc, none |-> FALSE, val |-> ""]
        ELSE IF bk.none THEN [exc |-> "none", none |-> TRUE, val |-> ""]
        ELSE IF Len(copy) = 1 THEN [exc |-> "none", none |-> FALSE, val |-> copy[1]]
        ELSE IF Len(copy) = 0 \/ FirstChar(copy[1]) = "empty"
             THEN [exc |-> "IndexError", none |-> FALSE, val |-> ""]
        ELSE IF FirstChar(copy[1]) # "-"
             THEN [exc |-> "none", none |-> FALSE, val |-> copy[1]]
        ELSE LET r == ScanForPlaybook(copy, 2)
             IN  [exc |-> r.exc, none |-> FALSE, val |-> r.val]

\* lines 241-262: the loop over cmdline_args mounting the values of the
\* recognized options.  result: [exc, args]
IsHostList(arg, value) ==
    arg \in Range(inventory_file_options) /\ EndsWithComma(value)

RECURSIVE OptionMounts(_, _, _, _, _, _)
OptionMounts(dirs, workdir, args_list, cmdline_args, k, copy) ==
    IF k > Len(cmdline_args) THEN Ok(args_list)
    ELSE IF cmdline_args[k] \notin Range(optional_mount_args)
         THEN OptionMounts(dirs, workdir, args_list, cmdline_args, k + 1, copy)
    ELSE LET arg == cmdline_args[k]
             i == Index(copy, arg)
         IN  IF i = 0 THEN Raise("ValueError", args_list)
             \* line 249: cmdline_args[optional_arg_index + 1]
             ELSE IF i + 1 > Len(cmdline_args) THEN Raise("IndexError", args_list)
             \* lines 251-256: the value is missing: return
             ELSE IF i > Len(Pop(copy, i)) THEN Ok(args_list)
             ELSE LET value == Pop(copy, i)[i]
                      rest == Pop(Pop(copy, i), i)
                  IN  IF IsHostList(arg, value)
                      THEN OptionMounts(dirs, workdir, args_list, cmdline_args,
                                        k + 1, rest)
                      ELSE LET r == UpdateVolumeMountPaths(dirs, workdir,
                                        args_list, TRUE, TokenPath(value),
                                        NoPath, "")
                           IN  IF r.exc # "none" THEN r
                               ELSE OptionMounts(dirs, workdir, r.args,
                                                 cmdline_args, k + 1, rest)

\* The test of line 231 left out.
HasHelp_Ignored(cmdline_args) == FALSE

\* line 231
HasHelp(cmdline_args) ==
    InList("-h", cmdline_args) \/ InList("--help", cmdline_args)

\* lines 221-262: _handle_ansible_cmd_options_bind_mounts.  result: [exc, args]
HandleAnsibleCmdOptionsBindMounts(dirs, workdir, command, args_list, cmdline_args) ==
    IF cmdline_args = <<>> THEN Ok(args_list)
    ELSE IF HasHelp(cmdline_args) THEN Ok(args_list)
    ELSE LET is_playbook ==
                 \E n \in 1..Len(command) : ContainsAnsiblePlaybook(command[n])
             pb == IF is_playbook THEN GetPlaybookPath(cmdline_args)
                   ELSE [exc |-> "none", none |-> TRUE, val |-> ""]
             r1 == IF pb.exc # "none" THEN Raise(pb.exc, args_list)
                   ELSE IF pb.val = "" THEN Ok(args_list)
                   ELSE UpdateVolumeMountPaths(dirs, workdir, args_list, TRUE,
                                               TokenPath(pb.val), NoPath, "")
         IN  IF r1.exc # "none" THEN r1
             ELSE OptionMounts(dirs, workdir, r1.args, cmdline_args, 1,
                               cmdline_args)

(***************************************************************************)
(* The automount pass.                                                     *)
(***************************************************************************)
\* ansible_runner.utils.cli_mounts(), for the HOME of os.environ
CliMounts(environ) ==
    << [ENVS |-> <<"SSH_AUTH_SOCK">>,
        PATHS |-> <<
            [src |-> JoinEmpty(ConcatSlash(environ["HOME"], ".ssh")),
             dest |-> Path(1, <<"home", "runner", ".ssh">>, TRUE)],
            [src |-> JoinEmpty(ConcatSlash(environ["HOME"], ".ssh")),
             dest |-> Path(1, <<"root", ".ssh">>, TRUE)],
            [src |-> Abs(<<"etc", "ssh", "ssh_known_hosts">>),
             dest |-> Abs(<<"etc", "ssh", "ssh_known_hosts">>)] >>] >>

IsPrefix(a, b) == Len(a) <= Len(b) /\ SubSeq(b, 1, Len(a)) = a

\* str.startswith(os.environ['HOME'])
StartsWithHome(environ, p) ==
    p.lead = environ["HOME"].lead /\ IsPrefix(environ["HOME"].comps, p.comps)

\* str.lstrip(os.environ['HOME']) strips every leading character that occurs
\* in HOME: the separators, and each leading component spelled with letters of
\* HOME only.  No other component of the model starts with a letter of HOME.
RECURSIVE LstripHome(_, _)
LstripHome(environ, comps) ==
    IF comps # <<>> /\ Head(comps) \in Range(environ["HOME"].comps)
    THEN LstripHome(environ, Tail(comps))
    ELSE comps

\* lines 150-158: the in-container path of an exported variable
AutomountDest(dirs, environ, env) ==
    IF Exists(dirs, environ[env]) /\ StartsWithHome(environ, environ[env])
    THEN Path(1, <<"home", "runner">> \o LstripHome(environ, environ[env].comps),
              environ[env].trail)
    ELSE environ[env]

\* lines 148-162
RECURSIVE AutomountEnvs(_, _, _, _, _, _)
AutomountEnvs(dirs, workdir, environ, envs, k, args_list) ==
    IF k > Len(envs) THEN Ok(args_list)
    ELSE IF envs[k] \notin DOMAIN environ
         THEN AutomountEnvs(dirs, workdir, environ, envs, k + 1, args_list)
    ELSE LET dest_path == AutomountDest(dirs, environ, envs[k])
             r == IF Exists(dirs, environ[envs[k]])
                  THEN UpdateVolumeMountPaths(dirs, workdir, args_list, TRUE,
                                              environ[envs[k]], dest_path, "")
                  ELSE Ok(args_list)
         IN  IF r.exc # "none" THEN r
             ELSE AutomountEnvs(dirs, workdir, environ, envs, k + 1,
                      r.args \o <<Str("-e"), PathArg(envs[k], dest_path)>>)

\* lines 164-166
RECURSIVE AutomountPaths(_, _, _, _, _)
AutomountPaths(dirs, workdir, paths, k, args_list) ==
    IF k > Len(paths) THEN Ok(args_list)
    ELSE LET r == IF Exists(dirs, paths[k].src)
                  THEN UpdateVolumeMountPaths(dirs, workdir, args_list, TRUE,
                                              paths[k].src, paths[k].dest, "")
                  ELSE Ok(args_list)
         IN  IF r.exc # "none" THEN r
             ELSE AutomountPaths(dirs, workdir, paths, k + 1, r.args)

\* lines 146-166: _handle_automounts
RECURSIVE HandleAutomounts(_, _, _, _, _, _)
HandleAutomounts(dirs, workdir, environ, mounts, k, args_list) ==
    IF k > Len(mounts) THEN Ok(args_list)
    ELSE LET r1 == AutomountEnvs(dirs, workdir, environ, mounts[k].ENVS, 1,
                                 args_list)
             r2 == IF r1.exc # "none" THEN r1
                   ELSE AutomountPaths(dirs, workdir, mounts[k].PATHS, 1, r1.args)
         IN  IF r2.exc # "none" THEN r2
             ELSE HandleAutomounts(dirs, workdir, environ, mounts, k + 1, r2.args)

(***************************************************************************)
(* Registry credentials and explicit volume mounts.                        *)
(***************************************************************************)
\* tempfile.mkdtemp(prefix=f'{registry_auth_prefix}{ident}_')
AuthTmpDir == Abs(<<"tmp", "ansible_runner_registry_ident_">>)

\* lines 272-275: the name of the credential file
AuthFilename(executable) ==
    IF executable = "docker" THEN "config.json" ELSE "auth.json"

\* Any falsy verify_ssl taken for False.
Insecure_Falsy(auth_data) == auth_data.verify_ssl \in {"false", "none"}

\* line 282: auth_data.get('verify_ssl', True) is False; verify_ssl is
\* "absent" (no such key), "true", "false" or "none" (the key holds None)
Insecure(auth_data) == auth_data.verify_ssl = "false"

\* lines 296-298: docker is given the directory, podman the file
ReturnedAuthPath(executable, path, authfile_name) ==
    IF executable = "docker" THEN path ELSE authfile_name

\* lines 264-299: _generate_container_auth_dir, as one step on the file
\* system `dirs`, with the directory mkdtemp makes at AuthTmpDir.
GenerateContainerAuthDir(dirs, executable, auth_data) ==
    LET path == AuthTmpDir
        registry_auth_path == Join(path, Rel(<<AuthFilename(executable)>>))
        insecure == Insecure(auth_data)
        registries_conf_path ==
            IF insecure THEN Join(path, Rel(<<"registries.conf">>)) ELSE NoPath
    IN  [auth_path |-> ReturnedAuthPath(executable, path, registry_auth_path),
         registries_conf_path |-> registries_conf_path,
         dirs |-> [dirs |-> dirs.dirs \cup {Canon(path)},
                   files |-> dirs.files \cup {Canon(registry_auth_path)}
                             \cup (IF insecure THEN {Canon(registries_conf_path)}
                                   ELSE {})]]

\* line 111: f":{volume_mounts[2]}"
ColonLabel(label) ==
    CASE label = "Z" -> ":Z"
      [] label = "ro" -> ":ro"
      [] OTHER -> ":"

\* lines 106-112: the mounts of container_volume_mounts; a mapping is the
\* list mapping.split(':', 2): [n: its length, src, dst, label]
RECURSIVE ExplicitMounts(_, _, _, _, _)
ExplicitMounts(dirs, workdir, mounts, k, args_list) ==
    IF k > Len(mounts) THEN Ok(args_list)
    ELSE IF EnsureRaises(dirs, mounts[k].src)
         THEN Raise("ConfigurationError", args_list)
    ELSE IF mounts[k].n < 2 THEN Raise("IndexError", args_list)
    ELSE LET labels == IF mounts[k].n = 3 THEN ColonLabel(mounts[k].label) ELSE ""
             r == UpdateVolumeMountPaths(dirs, workdir, args_list, TRUE,
                                         mounts[k].src, mounts[k].dst, labels)
         IN  IF r.exc # "none" THEN r
             ELSE ExplicitMounts(dirs, workdir, mounts, k + 1, r.args)

(***************************************************************************)
(* BaseEngine.default_args(args, execution_mode, cmdline_args).            *)
(***************************************************************************)
NoAuth == [present |-> FALSE, verify_ssl |-> "absent"]

\* The configuration prepare_env leaves for a containerized run of a
\* private_data_dir with an artifact_dir, everything else unset.
BaseConfig(pdd, artifact_dir) ==
    [process_isolation_executable |-> "podman",
     tty |-> FALSE,              \* runner_mode == 'pexpect' or input_fd set
     container_workdir |-> NoPath,
     host_cwd |-> NoPath,
     private_data_dir |-> pdd,
     artifact_dir |-> artifact_dir,
     container_auth_data |-> NoAuth,
     container_volume_mounts |-> <<>>,
     container_options |-> <<>>,
     container_image |-> "image",
     container_name |-> "ansible_runner_ident",
     command |-> <<"ansible-playbook">>,
     cwd |-> Abs(ProcCwd),
     env |-> [CONTAINERS_REGISTRIES_CONF |-> NoPath,
              REGISTRIES_CONFIG_PATH |-> NoPath],
     registry_auth_path |-> NoPath]

StartArgs(cfg) ==
    <<Str(cfg.process_isolation_executable), Str("run"), Str("--rm")>>
    \o (IF cfg.tty THEN <<Str("--tty")>> ELSE <<>>)
    \o <<Str("--interactive")>>

\* lines 35-41
BStart ==
    /\ b_pc = "L35"
    /\ new_args' = StartArgs(config)
    /\ b_pc' = "L43"
    /\ UNCHANGED <<b_exc, config, call, os_environ, fs,
                   writerVars, authVars, dumperVars>>

\* The working directory stored in config.container_workdir as well.
BWorkdir_StoresWorkdir ==
    /\ b_pc = "L43"
    /\ LET use_host == config.container_workdir = NoPath
                       /\ config.host_cwd # NoPath
                       /\ Exists(fs, config.host_cwd)
           r == IF ~use_host THEN Ok(new_args)
                ELSE IF EnsureRaises(fs, config.host_cwd)
                     THEN Raise("ConfigurationError", new_args)
                     ELSE UpdateVolumeMountPaths(fs, config.container_workdir,
                              new_args, TRUE, config.host_cwd, NoPath, "")
           workdir == IF config.container_workdir # NoPath
                      THEN config.container_workdir
                      ELSE IF use_host THEN config.host_cwd
                      ELSE Abs(<<"runner", "project">>)
       IN  IF r.exc # "none"
           THEN /\ b_pc' = "raised"
                /\ b_exc' = r.exc
                /\ new_args' = r.args
                /\ UNCHANGED config
           ELSE /\ b_pc' = "L59"
                /\ config' = [config EXCEPT !.cwd = workdir,
                                            !.container_workdir = workdir]
                /\ new_args' = r.args \o <<Str("--workdir"), PathArg("", workdir)>>
                /\ UNCHANGED b_exc
    /\ UNCHANGED <<call, os_environ, fs,
                   writerVars, authVars, dumperVars>>

\* lines 43-54: the working directory; the host cwd is mounted when it exists
BWorkdir ==
    /\ b_pc = "L43"
    /\ LET use_host == config.container_workdir = NoPath
                       /\ config.host_cwd # NoPath
                       /\ Exists(fs, config.host_cwd)
           r == IF ~use_host THEN Ok(new_args)
                ELSE IF EnsureRaises(fs, config.host_cwd)
                     THEN Raise("ConfigurationError", new_args)
                     ELSE UpdateVolumeMountPaths(fs, config.container_workdir,
                              new_args, TRUE, config.host_cwd, NoPath, "")
           workdir == IF config.container_workdir # NoPath
                      THEN config.container_workdir
                      ELSE IF use_host THEN config.host_cwd
                      ELSE Abs(<<"runner", "project">>)
       IN  IF r.exc # "none"
           THEN /\ b_pc' = "raised"
                /\ b_exc' = r.exc
                /\ new_args' = r.args
                /\ UNCHANGED config
           ELSE /\ b_pc' = "L59"
                /\ config' = [config EXCEPT !.cwd = workdir]
                /\ new_args' = r.args \o <<Str("--workdir"), PathArg("", workdir)>>
                /\ UNCHANGED b_exc
    /\ UNCHANGED <<call, os_environ, fs,
                   writerVars, authVars, dumperVars>>

\* Mode NONE taken through the branch of the other modes.
BModeBranch_NoneAsGeneric ==
    /\ b_pc = "L59"
    /\ b_pc' = IF call.execution_mode = "ANSIBLE_COMMANDS" THEN "L61" ELSE "L64"
    /\ UNCHANGED <<b_exc, config, call, os_environ, fs, new_args,
                   writerVars, authVars, dumperVars>>

\* lines 59-60: the branch on the execution mode
BModeBranch ==
    /\ b_pc = "L59"
    /\ b_pc' = CASE call.execution_mode = "NONE" -> "L83"
                 [] call.execution_mode = "ANSIBLE_COMMANDS" -> "L61"
                 [] OTHER -> "L64"
    /\ UNCHANGED <<b_exc, config, call, os_environ, fs, new_args,
                   writerVars, authVars, dumperVars>>

\* line 61: path inference for ansible commands
BInfer ==
    /\ b_pc = "L61"
    /\ LET r == HandleAnsibleCmdOptionsBindMounts(fs, config.container_workdir,
                    config.command, new_args, call.cmdline_args)
       IN  /\ new_args' = r.args
           /\ b_exc' = r.exc
           /\ b_pc' = IF r.exc = "none" THEN "L64" ELSE "raised"
    /\ UNCHANGED <<config, call, os_environ, fs,
                   writerVars, authVars, dumperVars>>

\* line 64: the automount pass
BAutomounts ==
    /\ b_pc = "L64"
    /\ LET r == HandleAutomounts(fs, config.container_workdir, os_environ,
                                 CliMounts(os_environ), 1, new_args)
       IN  /\ new_args' = r.args
           /\ b_exc' = r.exc
           /\ b_pc' = IF r.exc = "none" THEN "L66" ELSE "raised"
    /\ UNCHANGED <<config, call, os_environ, fs,
                   writerVars, authVars, dumperVars>>

\* 'podman' in self.config.process_isolation_executable
IsPodman(executable) == executable = "podman"
\* 'docker' in self.config.process_isolation_executable
IsDocker(executable) == executable = "docker"

\* lines 66-69: the namespace flags of podman
BPodmanNamespace ==
    /\ b_pc = "L66"
    /\ new_args' = IF IsPodman(config.process_isolation_executable)
                   THEN new_args \o <<Str("--group-add=root"), Str("--ipc=host")>>
                   ELSE new_args
    /\ b_pc' = "L71"
    /\ UNCHANGED <<b_exc, config, call, os_environ, fs,
                   writerVars, authVars, dumperVars>>

\* os.mkdir(path, 0o700) of each missing directory of `paths`
WithDirs(dirs, paths) ==
    [dirs EXCEPT !.dirs = @ \cup {Canon(p) : p \in paths}]

\* lines 71-81: the private data directory is checked, its project and
\* artifacts directories are made, the artifacts directory is mounted
BArtifacts ==
    /\ b_pc = "L71"
    /\ IF EnsureRaises(fs, config.private_data_dir)
       THEN /\ b_pc' = "raised"
            /\ b_exc' = "ConfigurationError"
            /\ UNCHANGED <<fs, new_args>>
       ELSE LET made == WithDirs(fs,
                            {Join(config.private_data_dir, Rel(<<"project">>)),
                             Join(config.private_data_dir, Rel(<<"artifacts">>))})
                r == UpdateVolumeMountPaths(made, config.container_workdir,
                         new_args, TRUE,
                         ConcatSlash(config.private_data_dir, "artifacts"),
                         Abs(<<"runner", "artifacts">>), ":Z")
            IN  /\ fs' = made
                /\ new_args' = r.args
                /\ b_exc' = r.exc
                /\ b_pc' = IF r.exc = "none" THEN "L89" ELSE "raised"
    /\ UNCHANGED <<config, call, os_environ,
                   writerVars, authVars, dumperVars>>

\* lines 83-85: execution mode NONE: only the artifacts directory is made
BNoneArtifacts ==
    /\ b_pc = "L83"
    /\ fs' = WithDirs(fs, {Join(config.private_data_dir, Rel(<<"artifacts">>))})
    /\ b_pc' = "L89"
    /\ UNCHANGED <<b_exc, config, call, os_environ, new_args,
                   writerVars, authVars, dumperVars>>

\* line 89: the whole private data directory is mounted
BMountPrivateDataDir ==
    /\ b_pc = "L89"
    /\ LET r == UpdateVolumeMountPaths(fs, config.container_workdir, new_args,
                    TRUE, config.private_data_dir, Abs(<<"runner">>), ":Z")
       IN  /\ new_args' = r.args
           /\ b_exc' = r.exc
           /\ b_pc' = IF r.exc = "none" THEN "L91" ELSE "raised"
    /\ UNCHANGED <<config, call, os_environ, fs,
                   writerVars, authVars, dumperVars>>

\* The element put at the end of the list instead.
Insert_AtEnd(list, i, x) == list \o <<x>>

\* list.insert(i, x), counted from 1: x becomes the i-th element
Insert(list, i, x) == SubSeq(list, 1, i - 1) \o <<x>> \o SubSeq(list, i, Len(list))

\* lines 91-103: the registry credentials
BAuth ==
    /\ b_pc = "L91"
    /\ IF ~config.container_auth_data.present
       THEN UNCHANGED <<config, fs, new_args>>
       ELSE LET g == GenerateContainerAuthDir(fs,
                         config.process_isolation_executable,
                         config.container_auth_data)
                conf == g.registries_conf_path
            IN  /\ fs' = g.dirs
                /\ config' = [config EXCEPT
                       !.registry_auth_path = g.auth_path,
                       !.env = IF conf # NoPath
                               THEN [CONTAINERS_REGISTRIES_CONF |-> conf,
                                     REGISTRIES_CONFIG_PATH |-> conf]
                               ELSE @]
                /\ new_args' =
                       IF IsPodman(config.process_isolation_executable)
                       THEN new_args \o <<PathArg("--authfile=", g.auth_path)>>
                       ELSE Insert(new_args,
                                Index(new_args,
                                      Str(config.process_isolation_executable)) + 1,
                                PathArg("--config=", g.auth_path))
    /\ b_pc' = "L105"
    /\ UNCHANGED <<b_exc, call, os_environ,
                   writerVars, authVars, dumperVars>>

\* lines 105-112: the explicit volume mounts
BVolumeMounts ==
    /\ b_pc = "L105"
    /\ LET r == ExplicitMounts(fs, config.container_workdir,
                               config.container_volume_mounts, 1, new_args)
       IN  /\ new_args' = r.args
           /\ b_exc' = r.exc
           /\ b_pc' = IF r.exc = "none" THEN "L116" ELSE "raised"
    /\ UNCHANGED <<config, call, os_environ, fs,
                   writerVars, authVars, dumperVars>>

StrList(list) == [i \in 1..Len(list) |-> Str(list[i])]

\* The image put before the options of the caller.
TailArgs_ImageBeforeOptions(cfg, args) ==
    <<Str("--env-file"), PathArg("", Join(cfg.artifact_dir, Rel(<<"env.list">>)))>>
    \o (IF IsPodman(cfg.process_isolation_executable)
        THEN <<Str("--quiet")>> ELSE <<>>)
    \o (IF IsDocker(cfg.process_isolation_executable)
        THEN <<Str("--user=uid")>> ELSE <<>>)
    \o <<Str("--name"), Str(cfg.container_name)>>
    \o <<Str(cfg.container_image)>>
    \o StrList(cfg.container_options)
    \o StrList(args)

\* lines 116-132: the end of the vector
TailArgs(cfg, args) ==
    <<Str("--env-file"), PathArg("", Join(cfg.artifact_dir, Rel(<<"env.list">>)))>>
    \o (IF IsPodman(cfg.process_isolation_executable)
        THEN <<Str("--quiet")>> ELSE <<>>)
    \o (IF IsDocker(cfg.process_isolation_executable)
        THEN <<Str("--user=uid")>> ELSE <<>>)
    \o <<Str("--name"), Str(cfg.container_name)>>
    \o StrList(cfg.container_options)
    \o <<Str(cfg.container_image)>>
    \o StrList(args)

\* lines 116-134: the vector is completed and returned
BTail ==
    /\ b_pc = "L116"
    /\ new_args' = new_args \o TailArgs(config, call.args)
    /\ b_pc' = "done"
    /\ UNCHANGED <<b_exc, config, call, os_environ, fs,
                   writerVars, authVars, dumperVars>>

NextBuilder ==
    \/ BStart
    \/ BWorkdir
    \/ BModeBranch
    \/ BInfer
    \/ BAutomounts
    \/ BPodmanNamespace
    \/ BArtifacts
    \/ BNoneArtifacts
    \/ BMountPrivateDataDir
    \/ BAuth
    \/ BVolumeMounts
    \/ BTail

(***************************************************************************)
(* BaseEngine._generate_container_auth_dir(auth_data), called up to        *)
(* MaxAuthCalls times by one process; the directories it makes stay until  *)
(* the process exits (register_for_cleanup).                               *)
(***************************************************************************)
\* The names tempfile.mkdtemp can draw: the prefix and a random suffix.
TmpNames ==
    {"ansible_runner_registry_ident_" \o ToString(i) : i \in 1..(MaxAuthCalls + 1)}

AuthFiles == {"config.json", "auth.json", "registries.conf"}

NoAuthFile == [exists |-> FALSE, mode |-> "none", content |-> <<>>]

\* json.dumps(encoded_container_auth_data, indent=4): the host and the base64
\* of "username:password"
AuthJson == <<"auths", "host", "b64(username:password)">>

\* lines 288-294: the lines of registries.conf
RegistriesConf == <<"[[registry]]", "location = \"host\"", "insecure = true">>

TmpDir(name) == Abs(<<"tmp", name>>)

NoLocals == [path |-> "", registry_auth_path |-> NoPath,
             registries_conf_path |-> NoPath]

\* The call: the engine and auth_data
ABegin ==
    /\ a_pc = "idle"
    /\ Len(a_log) < MaxAuthCalls
    /\ \E executable \in {"podman", "docker"},
          v \in {"absent", "true", "false", "none"} :
         a_call' = [executable |-> executable,
                    auth_data |-> [present |-> TRUE, verify_ssl |-> v]]
    /\ a_locals' = NoLocals
    /\ a_pc' = "L269"
    /\ UNCHANGED <<a_tmp, a_log,
                   writerVars, builderVars, dumperVars>>

\* line 269: tempfile.mkdtemp makes a directory that did not exist
AMkdtemp ==
    /\ a_pc = "L269"
    /\ \E name \in TmpNames :
         /\ ~a_tmp[name].exists
         /\ a_tmp' = [a_tmp EXCEPT ![name].exists = TRUE]
         /\ a_locals' = [a_locals EXCEPT !.path = name]
    /\ a_pc' = "L276"
    /\ UNCHANGED <<a_call, a_log,
                   writerVars, builderVars, dumperVars>>

\* open(file, 'w'): the file is made, or truncated, with the mode the umask
\* leaves
OpenForWriting(tmp, name, f) ==
    [tmp EXCEPT ![name].files[f] =
        [exists |-> TRUE,
         mode |-> IF @.exists THEN @.mode ELSE "umask",
         content |-> <<>>]]

\* lines 276-277: the credential file is named and opened
AOpenAuth ==
    /\ a_pc = "L276"
    /\ a_locals' = [a_locals EXCEPT !.registry_auth_path =
                       Join(TmpDir(a_locals.path),
                            Rel(<<AuthFilename(a_call.executable)>>))]
    /\ a_tmp' = OpenForWriting(a_tmp, a_locals.path, AuthFilename(a_call.executable))
    /\ a_pc' = "L278"
    /\ UNCHANGED <<a_call, a_log,
                   writerVars, builderVars, dumperVars>>

\* line 278: os.chmod(authfile.name, S_IRUSR | S_IWUSR)
AChmodAuth ==
    /\ a_pc = "L278"
    /\ a_tmp' = [a_tmp EXCEPT
                    ![a_locals.path].files[AuthFilename(a_call.executable)].mode = "0600"]
    /\ a_pc' = "L279"
    /\ UNCHANGED <<a_call, a_locals, a_log,
                   writerVars, builderVars, dumperVars>>

\* line 279: the credentials are written
AWriteAuth ==
    /\ a_pc = "L279"
    /\ a_tmp' = [a_tmp EXCEPT
                    ![a_locals.path].files[AuthFilename(a_call.executable)].content =
                        AuthJson]
    /\ a_pc' = "L281"
    /\ UNCHANGED <<a_call, a_locals, a_log,
                   writerVars, builderVars, dumperVars>>

\* lines 281-285: registries.conf is named and opened when verify_ssl is False
AOpenConf ==
    /\ a_pc = "L281"
    /\ IF Insecure(a_call.auth_data)
       THEN /\ a_locals' = [a_locals EXCEPT !.registries_conf_path =
                               Join(TmpDir(a_locals.path), Rel(<<"registries.conf">>))]
            /\ a_tmp' = OpenForWriting(a_tmp, a_locals.path, "registries.conf")
            /\ a_pc' = "L286"
       ELSE /\ a_pc' = "L296"
            /\ UNCHANGED <<a_locals, a_tmp>>
    /\ UNCHANGED <<a_call, a_log,
                   writerVars, builderVars, dumperVars>>

\* line 286: os.chmod(registries_conf.name, S_IRUSR | S_IWUSR)
AChmodConf ==
    /\ a_pc = "L286"
    /\ a_tmp' = [a_tmp EXCEPT ![a_locals.path].files["registries.conf"].mode = "0600"]
    /\ a_pc' = "L294"
    /\ UNCHANGED <<a_call, a_locals, a_log,
                   writerVars, builderVars, dumperVars>>

\* line 294: the lines are written
AWriteConf ==
    /\ a_pc = "L294"
    /\ a_tmp' = [a_tmp EXCEPT
                    ![a_locals.path].files["registries.conf"].content = RegistriesConf]
    /\ a_pc' = "L296"
    /\ UNCHANGED <<a_call, a_locals, a_log,
                   writerVars, builderVars, dumperVars>>

\* lines 296-299: the pair is returned
AReturn ==
    /\ a_pc = "L296"
    /\ a_log' = Append(a_log,
           [executable |-> a_call.executable,
            auth_data |-> a_call.auth_data,
            auth_path |-> ReturnedAuthPath(a_call.executable,
                                           TmpDir(a_locals.path),
                                           a_locals.registry_auth_path),
            registries_conf_path |-> a_locals.registries_conf_path])
    /\ a_pc' = "idle"
    /\ UNCHANGED <<a_call, a_locals, a_tmp,
                   writerVars, builderVars, dumperVars>>

NextAuthDir ==
    \/ ABegin
    \/ AMkdtemp
    \/ AOpenAuth
    \/ AChmodAuth
    \/ AWriteAuth
    \/ AOpenConf
    \/ AChmodConf
    \/ AWriteConf
    \/ AReturn

(***************************************************************************)
(* dump_artifacts(config).  A value of the configuration is a record with  *)
(* its kind in `k`: None, a string, a string naming a path, a list of      *)
(* paths joined by ':', a mapping (its items in order), a list, False, or  *)
(* the string json.dumps makes of a value.                                 *)
(***************************************************************************)
NoneV == [k |-> "none"]
Text(s) == [k |-> "str", s |-> s]
PathV(p) == [k |-> "path", p |-> p]
PathList(paths) == [k |-> "pathlist", paths |-> paths]
Dict(items) == [k |-> "dict", items |-> items]
List(elems) == [k |-> "list", elems |-> elems]
FalseV == [k |-> "bool", b |-> FALSE]

\* json.dumps(obj)
Json(v) == [k |-> "json", of |-> v]

\* The truth value of an object: None and what is empty are false.
Truthy(v) ==
    CASE v.k = "none" -> FALSE
      [] v.k = "str" -> v.s # ""
      [] v.k = "path" -> v.p # NoPath
      [] v.k = "dict" -> v.items # <<>>
      [] v.k = "list" -> v.elems # <<>>
      [] OTHER -> TRUE

\* d[key] = value: the item is replaced where it is, or added at the end
DictSet(d, key, value) ==
    IF \E i \in DOMAIN d.items : d.items[i][1] = key
    THEN Dict([i \in DOMAIN d.items |->
                  IF d.items[i][1] = key THEN <<key, value>> ELSE d.items[i]])
    ELSE Dict(Append(d.items, <<key, value>>))

\* ansible_runner.utils.isplaybook: a list of plays
isplaybook(v) == v.k = "list"

\* ansible_runner.utils.isinventory: a mapping or a string
isinventory(v) == v.k \in {"dict", "str"}

\* isinstance(obj, MutableMapping)
IsMapping(v) == v.k = "dict"

\* The path an inventory string spells.
InventoryPath(text) ==
    CASE text = "/d/inv.yml" -> Abs(<<"d", "inv.yml">>)
      [] text = "/d" -> Abs(<<"d">>)
      [] text = "/nowhere/hosts" -> Abs(<<"nowhere", "hosts">>)
      [] text = "site1" -> Rel(<<"site1">>)
      [] OTHER -> Rel(<<text>>)

\* What a file that was there before the call holds.
OldContent == Text("old")

\* lines 79-124: dump_artifact(obj, path, name) run by one process to its
\* end: the directory is made, and the file written unless it holds the
\* object.
\* result: [fs, fn]
DumpArtifact(fsr, object, path, name) ==
    LET target == Join(path, Rel(<<name>>))
        exists == Exists(fsr, target)
        c_digest == IF exists THEN Sha1Hexdigest(fsr.content[Canon(target)])
                    ELSE "unbound"
        with_dir == [fsr EXCEPT !.dirs = @ \cup {Canon(path)}]
    IN  [fn |-> target,
         fs |-> IF NeedsWrite(exists, Sha1Hexdigest(object), c_digest)
                THEN [with_dir EXCEPT
                         !.files = @ \cup {Canon(target)},
                         !.content = [f \in DOMAIN @ \cup {Canon(target)} |->
                                         IF f = Canon(target) THEN object ELSE @[f]]]
                ELSE with_dir]

\* A call of dump_artifact as the log keeps it.
ArtifactCall(object, path, name) ==
    [obj |-> object, path |-> path, filename |-> name]

\* The play made for a role with hosts 'all', whatever host_pattern says.
SynthesizedPlay_IgnoresHostPattern(cfg) ==
    LET role == Dict(<<<<"name", cfg.role>>>>
                     \o (IF Truthy(cfg.role_vars)
                         THEN <<<<"vars", cfg.role_vars>>>> ELSE <<>>))
    IN  List(<<Dict(<<<<"hosts", Text("all")>>, <<"roles", List(<<role>>)>>>>
                    \o (IF cfg.role_skip_facts
                        THEN <<<<"gather_facts", FalseV>>>> ELSE <<>>))>>)

\* lines 19-27: the play made for a role
SynthesizedPlay(cfg) ==
    LET role == Dict(<<<<"name", cfg.role>>>>
                     \o (IF Truthy(cfg.role_vars)
                         THEN <<<<"vars", cfg.role_vars>>>> ELSE <<>>))
        hosts == IF Truthy(cfg.host_pattern) THEN cfg.host_pattern ELSE Text("all")
    IN  List(<<Dict(<<<<"hosts", hosts>>, <<"roles", List(<<role>>)>>>>
                    \o (IF cfg.role_skip_facts
                        THEN <<<<"gather_facts", FalseV>>>> ELSE <<>>))>>)

\* lines 34-38: the value of ANSIBLE_ROLES_PATH
RolesPath(cfg) ==
    LET in_data_dir == Join(cfg.private_data_dir, Rel(<<"roles">>))
    IN  IF ~Truthy(cfg.roles_path) THEN PathList(<<in_data_dir>>)
        ELSE PathList(<<cfg.roles_path.p, in_data_dir>>)

\* lines 18-40: a role is turned into a play and a roles path
DRole ==
    /\ d_pc = "L18"
    /\ d_config' =
           IF Truthy(d_config.role)
           THEN [d_config EXCEPT
                    !.playbook = SynthesizedPlay(d_config),
                    !.envvars = DictSet(IF @ = NoneV THEN Dict(<<>>) ELSE @,
                                        "ANSIBLE_ROLES_PATH", RolesPath(d_config))]
           ELSE d_config
    /\ d_pc' = "L42"
    /\ UNCHANGED <<d_fs, d_calls,
                   writerVars, builderVars, authVars>>

\* lines 42-50: a playbook given as plays is written to project/main.json
DPlaybook ==
    /\ d_pc = "L42"
    /\ LET playbook == IF IsMapping(d_config.playbook)
                       THEN List(<<d_config.playbook>>) ELSE d_config.playbook
           path == Join(d_config.private_data_dir, Rel(<<"project">>))
           r == DumpArtifact(d_fs, Json(playbook), path, "main.json")
       IN  IF Truthy(d_config.playbook) /\ isplaybook(playbook)
           THEN /\ d_config' = [d_config EXCEPT !.playbook = PathV(r.fn)]
                /\ d_fs' = r.fs
                /\ d_calls' = Append(d_calls,
                                     ArtifactCall(Json(playbook), path, "main.json"))
           ELSE UNCHANGED <<d_config, d_fs, d_calls>>
    /\ d_pc' = "L52"
    /\ UNCHANGED <<writerVars, builderVars, authVars>>

\* Every inventory string written as inventory/hosts.
InventoryIsContent_Always(fsr, path, text) == TRUE

\* line 58: the string names nothing that exists, seen from inventory/
InventoryIsContent(fsr, path, text) ==
    ~Exists(fsr, Join(path, InventoryPath(text)))

\* lines 52-63: the inventory is written, or made a path
DInventory ==
    /\ d_pc = "L52"
    /\ LET inv == d_config.inventory
           path == Join(d_config.private_data_dir, Rel(<<"inventory">>))
       IN  IF ~(Truthy(inv) /\ isinventory(inv))
           THEN UNCHANGED <<d_config, d_fs, d_calls>>
           ELSE IF IsMapping(inv)
           THEN LET r == DumpArtifact(d_fs, Json(inv), path, "hosts.json")
                IN  /\ d_config' = [d_config EXCEPT !.inventory = PathV(r.fn)]
                    /\ d_fs' = r.fs
                    /\ d_calls' = Append(d_calls,
                                         ArtifactCall(Json(inv), path, "hosts.json"))
           ELSE IF InventoryIsContent(d_fs, path, inv.s)
           THEN LET r == DumpArtifact(d_fs, inv, path, "hosts")
                IN  /\ d_config' = [d_config EXCEPT !.inventory = PathV(r.fn)]
                    /\ d_fs' = r.fs
                    /\ d_calls' = Append(d_calls, ArtifactCall(inv, path, "hosts"))
           ELSE IF IsAbs(InventoryPath(inv.s))
           THEN UNCHANGED <<d_config, d_fs, d_calls>>
           ELSE /\ d_config' = [d_config EXCEPT !.inventory =
                                   PathV(Join(path, InventoryPath(inv.s)))]
                /\ UNCHANGED <<d_fs, d_calls>>
    /\ d_pc' = "L65"
    /\ UNCHANGED <<writerVars, builderVars, authVars>>

\* lines 66, 72: the keys of the files of env/, the first four written as
\* JSON, the last two as they are
EnvKeys == <<"envvars", "extravars", "passwords", "settings", "ssh_key", "cmdline">>

\* The place of dump_artifacts at the i-th key.
EnvPc(i) ==
    IF i > Len(EnvKeys) THEN "done"
    ELSE (IF i <= 4 THEN "L67_" ELSE "L73_") \o EnvKeys[i]

\* line 65: nothing of env/ is written when suppress_env_files is set
DSuppress ==
    /\ d_pc = "L65"
    /\ d_pc' = IF d_config.suppress_env_files THEN "done" ELSE EnvPc(1)
    /\ UNCHANGED <<d_config, d_fs, d_calls,
                   writerVars, builderVars, authVars>>

\* The test for the file left out.
EnvFileMissing_Unchecked(fsr, private_data_dir, key) == TRUE

\* lines 68, 74: not os.path.exists(os.path.join(private_data_dir, 'env', key))
EnvFileMissing(fsr, private_data_dir, key) ==
    ~Exists(fsr, Join(Join(private_data_dir, Rel(<<"env">>)), Rel(<<key>>)))

\* lines 67-70, 73-76: the value of the i-th key is written to env/<key>
DEnv(i) ==
    /\ d_pc = EnvPc(i)
    /\ LET key == EnvKeys[i]
           value == d_config[key]
           path == Join(d_config.private_data_dir, Rel(<<"env">>))
           written == IF i <= 4 THEN Json(value) ELSE value
           r == DumpArtifact(d_fs, written, path, key)
       IN  IF Truthy(value) /\ EnvFileMissing(d_fs, d_config.private_data_dir, key)
           THEN /\ d_fs' = r.fs
                /\ d_calls' = Append(d_calls, ArtifactCall(written, path, key))
           ELSE UNCHANGED <<d_fs, d_calls>>
    /\ d_pc' = EnvPc(i + 1)
    /\ UNCHANGED <<d_config,
                   writerVars, builderVars, authVars>>

NextDumper ==
    \/ DRole
    \/ DPlaybook
    \/ DInventory
    \/ DSuppress
    \/ \E i \in DOMAIN EnvKeys : DEnv(i)

(***************************************************************************)
(* The runs checked.                                                       *)
(***************************************************************************)
\* Tokens of the enumerated command lines.
Tokens == {"-i", "--private-key", "-h", "--help", "-e",
           "pb.yml", "inv", "/d/inv.yml", "/c/hosts,", "/home/k"}

\* Command lines past MaxArgs tokens, and command lines with an empty token.
LongCmdlines == {
    <<"-i", "/d/inv.yml", "-i", "inv", "pb.yml">>,
    <<"pb.yml", "--private-key", "/d/inv.yml", "-i", "/c/hosts,">>,
    <<"-e", "x=1", "pb.yml", "-i", "inv", "-h">>,
    <<"">>,
    <<"", "pb.yml">>,
    <<"pb.yml", "">>,
    <<"-e", "", "pb.yml">> }

\* Command lines of the runs that vary the rest of the configuration.
FewCmdlines == {
    <<>>,
    <<"pb.yml">>,
    <<"-i", "/d/inv.yml", "pb.yml">>,
    <<"-i", "/d/inv.yml", "pb.yml", "-h">>,
    <<"--help", "-i", "inv", "pb.yml">> }

Home == Abs(<<"home", "u">>)

\* os.environ: HOME, and SSH_AUTH_SOCK unset, or naming a socket outside HOME,
\* in /home, under HOME, or nothing.
Environs == {
    [v \in {"HOME"} |-> Home],
    [v \in {"HOME", "SSH_AUTH_SOCK"} |->
        IF v = "HOME" THEN Home ELSE Abs(<<"run", "agent.sock">>)],
    [v \in {"HOME", "SSH_AUTH_SOCK"} |->
        IF v = "HOME" THEN Home ELSE Abs(<<"home", "agent.sock">>)],
    [v \in {"HOME", "SSH_AUTH_SOCK"} |->
        IF v = "HOME" THEN Home ELSE Abs(<<"home", "u", "agent.sock">>)],
    [v \in {"HOME", "SSH_AUTH_SOCK"} |->
        IF v = "HOME" THEN Home ELSE Abs(<<"nowhere", "agent.sock">>)] }

PlainEnviron == [v \in {"HOME"} |-> Home]

HostFs == [dirs |-> HostDirs, files |-> HostFiles]
HostFsWithSsh == [dirs |-> HostDirs \cup {<<"home", "u", ".ssh">>}, files |-> HostFiles]

\* private_data_dir (os.path.abspath of what the caller gave) with its
\* artifact_dir: /data has its artifacts elsewhere, the others below them.
DataDirs == {
    [pdd |-> Abs(<<"data">>), art |-> Abs(<<"art", "ident">>)],
    [pdd |-> Abs(<<"home", "data">>),
     art |-> Abs(<<"home", "data", "artifacts", "ident">>)],
    [pdd |-> Path(2, <<"home">>, FALSE),
     art |-> Path(2, <<"home", "artifacts", "ident">>, FALSE)],
    [pdd |-> Abs(<<"usr">>), art |-> Abs(<<"usr", "artifacts", "ident">>)] }

Mapping(n, src, dst, label) == [n |-> n, src |-> src, dst |-> dst, label |-> label]

\* container_volume_mounts entries: "src:dst", "src:dst:label", and "src"
Mappings == {
    Mapping(2, Abs(<<"d">>), Abs(<<"mnt">>), ""),
    Mapping(3, Abs(<<"d">>), Abs(<<"mnt">>), "Z"),
    Mapping(2, Abs(<<"d", "inv.yml">>), Abs(<<"mnt", "inv.yml">>), ""),
    Mapping(2, Abs(<<"proj">>), Abs(<<"proj">>), ""),
    Mapping(2, Abs(<<"d">>), Rel(<<"rel">>), ""),
    Mapping(2, Abs(<<"home">>), Abs(<<"mnt">>), ""),
    Mapping(2, Abs(<<"d">>), Path(1, <<"usr">>, TRUE), ""),
    Mapping(2, Path(2, <<"home">>, FALSE), Abs(<<"mnt">>), ""),
    Mapping(1, Abs(<<"d">>), NoPath, "") }

HostCwds == {NoPath, Abs(<<"proj">>), Abs(<<"home">>), Abs(<<"nowhere">>)}

Modes == {"NONE", "ANSIBLE_COMMANDS", "GENERIC_COMMANDS"}

Call(command, mode, cmdline) ==
    [args |-> command \o cmdline, execution_mode |-> mode, cmdline_args |-> cmdline]

DefaultConfig == BaseConfig(Abs(<<"data">>), Abs(<<"art", "ident">>))

\* Runs that vary the command line of an ansible command.
InitInference ==
    /\ \E exe \in {"ansible-playbook", "ansible"},
          cmdline \in SeqsUpTo(Tokens, MaxArgs) \cup LongCmdlines :
         /\ config = [DefaultConfig EXCEPT !.command = <<exe>> \o cmdline]
         /\ call = Call(<<exe>>, "ANSIBLE_COMMANDS", cmdline)
    /\ os_environ = PlainEnviron
    /\ fs = HostFs

\* Runs that vary the engine, the mode and the environment.
InitModes ==
    /\ \E engine \in {"podman", "docker"}, mode \in Modes, cmdline \in FewCmdlines :
         /\ config = [DefaultConfig EXCEPT
                         !.process_isolation_executable = engine,
                         !.command = <<"ansible-playbook">> \o cmdline]
         /\ call = Call(<<"ansible-playbook">>, mode, cmdline)
    /\ os_environ \in Environs
    /\ fs \in {HostFs, HostFsWithSsh}

\* Runs that vary the directories and the explicit volume mounts.
InitMounts ==
    /\ \E d \in DataDirs, host_cwd \in HostCwds,
          workdir \in {NoPath, Abs(<<"w">>)},
          mounts \in SeqsUpTo(Mappings, MaxMounts),
          mode \in {"NONE", "GENERIC_COMMANDS"} :
         /\ config = [BaseConfig(d.pdd, d.art) EXCEPT
                         !.host_cwd = host_cwd,
                         !.cwd = IF host_cwd = NoPath THEN Abs(ProcCwd) ELSE host_cwd,
                         !.container_workdir = workdir,
                         !.container_volume_mounts = mounts,
                         !.command = <<"ansible-playbook", "pb.yml">>]
         /\ call = Call(<<"ansible-playbook">>, mode, <<"pb.yml">>)
    /\ os_environ = PlainEnviron
    /\ fs = HostFs

\* Runs that vary the credentials and the end of the vector.
InitAuth ==
    /\ \E engine \in {"podman", "docker"}, tty \in BOOLEAN,
          auth \in {NoAuth} \cup
                   {[present |-> TRUE, verify_ssl |-> v] :
                        v \in {"absent", "true", "false"}},
          options \in {<<>>, <<"--network=host">>},
          mode \in Modes :
         /\ config = [DefaultConfig EXCEPT
                         !.process_isolation_executable = engine,
                         !.tty = tty,
                         !.container_auth_data = auth,
                         !.container_options = options,
                         !.command = <<"ansible-playbook", "pb.yml">>]
         /\ call = Call(<<"ansible-playbook">>, mode, <<"pb.yml">>)
    /\ os_environ = PlainEnviron
    /\ fs = HostFs

\* No engine is building a command: the variables of part 2 hold nothing.
BuilderOff ==
    /\ b_pc = "off"
    /\ b_exc = "none"
    /\ config = <<>>
    /\ call = <<>>
    /\ os_environ = <<>>
    /\ fs = <<>>
    /\ new_args = <<>>

\* No call of _generate_container_auth_dir: the variables of part 3 hold
\* nothing.
AuthOff ==
    /\ a_pc = "off"
    /\ a_call = <<>>
    /\ a_locals = <<>>
    /\ a_tmp = <<>>
    /\ a_log = <<>>

\* No call of dump_artifacts: the variables of part 4 hold nothing.
DumperOff ==
    /\ d_pc = "off"
    /\ d_config = <<>>
    /\ d_fs = <<>>
    /\ d_calls = <<>>

WriterOff ==
    /\ pc = [p \in Procs |-> "idle"]
    /\ obj = [p \in Procs |-> <<>>]
    /\ c_sha1 = [p \in Procs |-> "unbound"]
    /\ lock_fd = [p \in Procs |-> 0]
    /\ holds = [p \in Procs |-> FALSE]
    /\ raised = [p \in Procs |-> "none"]
    /\ calls = 0
    /\ wrote = [p \in Procs |-> FALSE]
    /\ dir_exists = FALSE
    /\ file = NoFile
    /\ sentinel = 0
    /\ next_ino = 1
    /\ io_faulty = FALSE
    /\ filename = [p \in Procs |-> "f"]
    /\ fn = [p \in Procs |-> 0]
    /\ tmp_files = <<>>

InitBuilder ==
    /\ WriterOff
    /\ AuthOff
    /\ DumperOff
    /\ b_pc = "L35"
    /\ b_exc = "none"
    /\ new_args = <<>>
    /\ (InitInference \/ InitModes \/ InitMounts \/ InitAuth)

SpecBuilder == InitBuilder /\ [][NextBuilder]_vars

InitWriter == WriterInit /\ BuilderOff /\ AuthOff /\ DumperOff

\* Several processes, calling dump_artifact up to MaxCalls times in all.
NextWriter ==
    \E p \in Procs :
        \/ \E o \in ConcContents : Begin(p, o, MaxCalls)
        \/ WriterStep(p)

SpecWriter == InitWriter /\ [][NextWriter]_vars

\* One process calling dump_artifact up to MaxSeqCalls times in a row.
NextSeq ==
    \/ \E o \in SeqContents : Begin(1, o, MaxSeqCalls)
    \/ WriterStep(1)

SpecSeq == InitWriter /\ [][NextSeq]_vars

\* The contents callers pass for anonymous artifacts: the empty string too.
AnonContents == {<<>>, <<"a">>}

\* Several processes, calling dump_artifact without a filename up to MaxCalls
\* times in all.
NextAnon ==
    \E p \in Procs :
        \/ \E o \in AnonContents : BeginWith(p, o, "None", MaxCalls)
        \/ WriterStep(p)

SpecAnon == InitWriter /\ [][NextAnon]_vars

\* Calls of _generate_container_auth_dir in a process that made no temporary
\* directory yet.
InitAuthDir ==
    /\ WriterOff
    /\ BuilderOff
    /\ DumperOff
    /\ a_pc = "idle"
    /\ a_call = [executable |-> "podman", auth_data |-> NoAuth]
    /\ a_locals = NoLocals
    /\ a_tmp = [name \in TmpNames |->
                   [exists |-> FALSE, files |-> [f \in AuthFiles |-> NoAuthFile]]]
    /\ a_log = <<>>

SpecAuthDir == InitAuthDir /\ [][NextAuthDir]_vars

\* Runs of either function that writes a file meant for its owner only:
\* concurrent calls of dump_artifact, or calls of _generate_container_auth_dir.
InitSecrets == InitWriter \/ InitAuthDir

NextSecrets ==
    \/ a_pc = "off" /\ NextWriter
    \/ NextAuthDir

SpecSecrets == InitSecrets /\ [][NextSecrets]_vars

\* A RunnerConfig for the private data directory /data with nothing set.
EmptyRunnerConfig ==
    [private_data_dir |-> Abs(<<"data">>),
     role |-> NoneV, role_vars |-> NoneV, host_pattern |-> NoneV,
     role_skip_facts |-> FALSE, roles_path |-> NoneV,
     playbook |-> NoneV, inventory |-> NoneV,
     envvars |-> NoneV, extravars |-> NoneV, passwords |-> NoneV,
     settings |-> NoneV, ssh_key |-> NoneV, cmdline |-> NoneV,
     suppress_env_files |-> FALSE]

\* The host file system with more files, each holding what it held before.
FsWith(files) ==
    [dirs |-> HostDirs \cup {Front(f) : f \in files},
     files |-> HostFiles \cup files,
     content |-> [f \in HostFiles \cup files |-> OldContent]]

APlay == Dict(<<<<"hosts", Text("all")>>, <<"tasks", List(<<>>)>>>>)

\* Runs for a role.
InitRoles ==
    /\ \E role_vars \in {NoneV, Dict(<<>>), Dict(<<<<"x", Text("1")>>>>)},
          host_pattern \in {NoneV, Text(""), Text("web")},
          role_skip_facts \in BOOLEAN,
          roles_path \in {NoneV, PathV(Abs(<<"altrole">>))},
          envvars \in {NoneV, Dict(<<<<"A", Text("b")>>>>)},
          passwords \in {NoneV, Dict(<<<<"a", Text("b")>>>>)},
          suppress \in BOOLEAN :
         d_config = [EmptyRunnerConfig EXCEPT
                        !.role = Text("r"),
                        !.role_vars = role_vars,
                        !.host_pattern = host_pattern,
                        !.role_skip_facts = role_skip_facts,
                        !.roles_path = roles_path,
                        !.envvars = envvars,
                        !.passwords = passwords,
                        !.suppress_env_files = suppress]
    /\ d_fs \in {FsWith({}), FsWith({<<"data", "env", "envvars">>})}

\* Runs that vary the playbook and the inventory.
InitInventories ==
    /\ \E playbook \in {NoneV, Text("pb.yml"), APlay, List(<<APlay>>), List(<<>>)},
          inventory \in {NoneV, Text(""), Dict(<<>>),
                         Dict(<<<<"all", Dict(<<>>)>>>>),
                         Text("/d/inv.yml"), Text("/d"), Text("/nowhere/hosts"),
                         Text("site1"), Text("localhost,")},
          suppress \in BOOLEAN :
         d_config = [EmptyRunnerConfig EXCEPT
                        !.playbook = playbook,
                        !.inventory = inventory,
                        !.suppress_env_files = suppress]
    /\ d_fs \in {FsWith({}), FsWith({<<"data", "inventory", "site1">>}),
                 FsWith({<<"data", "inventory", "hosts">>})}

\* Runs that vary the values written to env/ and the files already there.
InitEnvFiles ==
    /\ \E envvars \in {NoneV, Dict(<<>>), Dict(<<<<"A", Text("b")>>>>)},
          extravars \in {NoneV, Dict(<<<<"x", Text("1")>>>>)},
          passwords \in {NoneV, Dict(<<<<"a", Text("b")>>>>)},
          settings \in {NoneV, Dict(<<<<"t", Text("5")>>>>)},
          ssh_key \in {NoneV, Text(""), Text("asdfg1234")},
          cmdline \in {NoneV, Text("-v")},
          suppress \in BOOLEAN :
         d_config = [EmptyRunnerConfig EXCEPT
                        !.envvars = envvars,
                        !.extravars = extravars,
                        !.passwords = passwords,
                        !.settings = settings,
                        !.ssh_key = ssh_key,
                        !.cmdline = cmdline,
                        !.suppress_env_files = suppress]
    /\ d_fs \in {FsWith({}),
                 FsWith({<<"data", "env", "envvars">>, <<"data", "env", "ssh_key">>}),
                 FsWith({<<"data", "env", "passwords">>, <<"data", "env", "cmdline">>})}

InitDumper ==
    /\ WriterOff
    /\ BuilderOff
    /\ AuthOff
    /\ d_pc = "L18"
    /\ d_calls = <<>>
    /\ (InitRoles \/ InitInventories \/ InitEnvFiles)

SpecDumper == InitDumper /\ [][NextDumper]_vars

(***************************************************************************)
(* Properties of the artifact writer.                                      *)
(***************************************************************************)
\* The process has the target file open for writing (lines 117-118).
InWriteSection(p) == pc[p] \in {"L117", "L118"}

AllIdle == \A p \in Procs : pc[p] = "idle"

\* C1: a process writes the target file only while it holds the exclusive
\* lock, and at most one process at a time is inside the write section of the
\* directory.
C1_WriteSectionExclusive ==
    \A p \in Procs :
        (~io_faulty /\ InWriteSection(p)) =>
            /\ holds[p]
            /\ \A q \in Procs \ {p} : ~InWriteSection(q)

\* C2: one process, one filename: a call whose content equals what the file
\* holds takes no lock and writes nothing, and after any sequence of calls
\* that returned the file holds the content of the last call.
C2_WriteOnceThenLastContent ==
    ~io_faulty =>
        /\ (pc[1] = "L112" /\ file.exists) => file.content # obj[1]
        /\ (pc[1] = "idle" /\ calls > 0 /\ raised[1] = "none") =>
               (file.exists /\ file.content = obj[1])

\* C3: two processes that call with identical content and both pass the
\* pre-check of line 110 both return without raising, and the file then holds
\* that content.
C3_BothWritersReturn ==
    \A p, q \in Procs :
        (/\ p # q
         /\ ~io_faulty
         /\ calls = 2
         /\ pc[p] = "idle" /\ pc[q] = "idle"
         /\ wrote[p] /\ wrote[q]
         /\ obj[p] = obj[q])
        => (/\ raised[p] = "none"
            /\ raised[q] = "none"
            /\ file.exists
            /\ file.content = obj[p])

\* C4: whenever no call of dump_artifact is in progress, the sentinel
\* .artifact_write_lock does not exist, also after calls that failed to open
\* or to write the target file.
C4_NoSentinelAtRest == AllIdle => sentinel = 0

\* A write that completed and a write that failed, and no call in progress.
C4_Witness ==
    /\ AllIdle
    /\ \E p \in Procs : wrote[p] /\ raised[p] = "OSError"
    /\ \E q \in Procs : wrote[q] /\ raised[q] = "none" /\ file.content = obj[q]

\* C22: once all the concurrent calls of dump_artifact for one directory and
\* filename have finished, the file holds exactly the content one of the calls
\* passed (every call passes one of ConcContents): it is not truncated and is
\* no mixture of the bytes of two writers.
C22_FileHoldsOneCallersContent ==
    (AllIdle /\ ~io_faulty /\ file.exists) => file.content \in ConcContents

\* C24: a process that saw the directory absent at line 93 creates it at line
\* 94 without raising, also when another process saw it absent too and
\* created it in between: the directory exists and the call goes on to write
\* its artifact.
C24_BothCreateDirectory ==
    [][\A p \in Procs :
           (pc[p] = "L94" /\ pc'[p] # "L94") =>
               (dir_exists' /\ raised'[p] = "none" /\ pc'[p] = "L98")]_vars

(***************************************************************************)
(* Properties of the command builder.                                      *)
(***************************************************************************)
\* The directories that must not be mounted: /, /home and /usr.
ForbiddenDirs == {<<>>, <<"home">>, <<"usr">>}

\* The path names one of the forbidden directories, or a file in one.
ResolvesToForbidden(dirs, p) ==
    Canon(IF IsFile(dirs, p) THEN Dirname(p) ELSE p) \in ForbiddenDirs

IsMount(e) == e.t = "mount"

\* -h or --help is a token of the command line.
HelpAsked ==
    \E k \in DOMAIN call.cmdline_args : call.cmdline_args[k] \in {"-h", "--help"}

\* The number of times the element occurs in the list.
Count(list, e) == Cardinality({i \in DOMAIN list : list[i] = e})

\* The mounts of the list.
MountsOf(list) == {list[i] : i \in {j \in DOMAIN list : IsMount(list[j])}}

NoMounts(list) == \A i \in DOMAIN list : ~IsMount(list[i])

\* C5: every run of default_args either raises ConfigurationError and returns
\* no vector, or returns a vector in which no -v element has a source or a
\* destination directory that is /, /home or /usr.
C5_SafeVectorOrConfigurationError ==
    /\ b_pc = "raised" => b_exc = "ConfigurationError"
    /\ b_pc = "done" =>
           \A i \in DOMAIN new_args :
               IsMount(new_args[i]) =>
                   /\ Canon(new_args[i].a) \notin ForbiddenDirs
                   /\ Canon(new_args[i].b) \notin ForbiddenDirs

\* C6: _ensure_path_safe_to_mount raises ConfigurationError for every path
\* that resolves to /, /home or /usr, and returns for any other existing
\* directory: stated of the call of line 71 on the private data directory.
C6_ForbiddenRootsRejected ==
    [][b_pc = "L71" =>
          IF ResolvesToForbidden(fs, config.private_data_dir)
          THEN b_pc' = "raised" /\ b_exc' = "ConfigurationError"
          ELSE b_exc' = "none"]_vars

\* C7: no formatted mount string appears more than once in the argument
\* list, and planning a mount a second time on the list the first call left
\* changes nothing: the pair is in the list exactly once.  The second part is
\* stated of the lists before and after the explicit mounts (lines 105, 116).
C7_MountsNeverDuplicated ==
    /\ \A i, j \in DOMAIN new_args :
           (i < j /\ IsMount(new_args[i])) => new_args[i] # new_args[j]
    /\ b_pc \in {"L105", "L116"} => \A m \in Mappings :
           LET wd == config.container_workdir
               r1 == UpdateVolumeMountPaths(fs, wd, new_args, TRUE,
                                            m.src, m.dst, m.label)
               r2 == UpdateVolumeMountPaths(fs, wd, r1.args, TRUE,
                                            m.src, m.dst, m.label)
           IN  r1.exc = "none" =>
                   /\ r2 = r1
                   /\ Len(r1.args) - Len(new_args) \in {0, 2}
                   /\ Exists(fs, m.src) =>
                          Count(r1.args, VolumeMountPath(fs, wd, m.src, m.dst,
                                                         m.label)) = 1

\* The same mapping given twice in container_volume_mounts, and the vector
\* returned holds its mount once.
C7_Witness ==
    /\ b_pc = "done"
    /\ config.container_volume_mounts =
           <<Mapping(2, Abs(<<"d">>), Abs(<<"mnt">>), ""),
             Mapping(2, Abs(<<"d">>), Abs(<<"mnt">>), "")>>
    /\ Count(new_args, MountStr(Path(1, <<"d">>, TRUE),
                                Path(1, <<"mnt">>, TRUE), "")) = 1

\* C8, as stated: with -h or --help in the command line, neither path
\* inference nor the automount pass adds a mount to the vector.
C8_HelpSuppressesAllMounts ==
    [][(b_pc \in {"L61", "L64"} /\ HelpAsked) =>
           MountsOf(new_args') = MountsOf(new_args)]_vars

\* C8, amended: with -h or --help in the command line, path inference
\* returns at once: it mounts nothing and raises nothing.
C8_HelpSkipsInference ==
    [][(b_pc = "L61" /\ HelpAsked) =>
           (new_args' = new_args /\ b_exc' = "none" /\ b_pc' = "L64")]_vars

\* Inference has run on a command line naming an inventory file, a playbook
\* and -h, and the vector holds no mount.
C8_Witness ==
    /\ b_pc = "L64"
    /\ call.execution_mode = "ANSIBLE_COMMANDS"
    /\ call.cmdline_args = <<"-i", "/d/inv.yml", "pb.yml", "-h">>
    /\ NoMounts(new_args)

\* A recognized option is the last token of the command line.
FlagWithoutValue(cmdline_args) ==
    /\ cmdline_args # <<>>
    /\ cmdline_args[Len(cmdline_args)] \in Range(optional_mount_args)

\* C9: when a recognized option has no following token, path inference
\* returns without raising an error of its own and the build continues.
C9_MissingValuePassesThrough ==
    [][(b_pc = "L61" /\ FlagWithoutValue(call.cmdline_args)) =>
           b_exc' \in {"none", "ConfigurationError"}]_vars

\* The wrapped command is an ansible-playbook command (line 234).
PlaybookCommand ==
    \E n \in DOMAIN config.command : ContainsAnsiblePlaybook(config.command[n])

\* C23: for a non-empty command line of an ansible-playbook command, path
\* inference ends without raising an error other than ConfigurationError; a
\* command line in which no playbook can be identified just gets no playbook
\* mount.  Command lines ending with a recognized option, which fail at line
\* 249, are left aside.
C23_InferenceRaisesNoOtherError ==
    [][(/\ b_pc = "L61"
        /\ PlaybookCommand
        /\ call.cmdline_args # <<>>
        /\ ~FlagWithoutValue(call.cmdline_args)) =>
           b_exc' \in {"none", "ConfigurationError"}]_vars

\* Every recognized option of the command line is followed by a token that is
\* not an option.
OptionsHaveValues(cmdline_args) ==
    \A k \in DOMAIN cmdline_args :
        cmdline_args[k] \in Range(optional_mount_args) =>
            /\ k < Len(cmdline_args)
            /\ FirstChar(cmdline_args[k + 1]) = "other"

\* The token at position k is the host list given to an inventory option.
HostListValue(cmdline_args, k) ==
    /\ k > 1
    /\ cmdline_args[k - 1] \in Range(inventory_file_options)
    /\ EndsWithComma(cmdline_args[k])

\* The directory that holds what the path names.
ContainingDirs(dirs, p) ==
    IF IsDir(dirs, Abspath(p))
    THEN {JoinEmpty(Abspath(p)), JoinEmpty(Dirname(Abspath(p)))}
    ELSE {JoinEmpty(Dirname(Abspath(p)))}

\* C10: for every inventory option of the command line the following token
\* is its value: a value that names an existing file or directory gets its
\* directory mounted, and no mount is made for a value ending with a comma.
\* Stated of the command lines in which every option has a value, unless the
\* build is refused for a forbidden directory.
C10_InventoryValuesMounted ==
    [][(/\ b_pc = "L61"
        /\ ~HelpAsked
        /\ OptionsHaveValues(call.cmdline_args)
        /\ b_exc' # "ConfigurationError") =>
           /\ b_exc' = "none"
           /\ \A k \in DOMAIN call.cmdline_args :
                  (/\ call.cmdline_args[k] \in Range(inventory_file_options)
                   /\ ~EndsWithComma(call.cmdline_args[k + 1])
                   /\ Exists(fs, TokenPath(call.cmdline_args[k + 1]))) =>
                      \E i \in DOMAIN new_args' :
                          /\ IsMount(new_args'[i])
                          /\ new_args'[i].a \in
                                 ContainingDirs(fs, TokenPath(call.cmdline_args[k + 1]))
           /\ \A i \in (Len(new_args) + 1)..Len(new_args') :
                  IsMount(new_args'[i]) =>
                      \E k \in DOMAIN call.cmdline_args :
                          /\ ~HostListValue(call.cmdline_args, k)
                          /\ Exists(fs, TokenPath(call.cmdline_args[k]))
                          /\ new_args'[i].a =
                                 SrcDir(fs, TokenPath(call.cmdline_args[k]))]_vars

\* C11, as stated: every vector returned, for either engine and with or
\* without registry credentials, begins with the engine name immediately
\* followed by run and --rm.
C11_EngineRunRmFirst ==
    b_pc = "done" =>
        /\ new_args[1] = Str(config.process_isolation_executable)
        /\ new_args[2] = Str("run")
        /\ new_args[3] = Str("--rm")

\* C11, amended: every vector returned begins with the engine name; run and
\* --rm follow it immediately, except for docker with registry credentials,
\* where --config=<registry_auth_path> stands between the engine name and
\* run.
C11_EngineThenRunRm ==
    b_pc = "done" =>
        LET docker_auth == /\ config.process_isolation_executable = "docker"
                           /\ config.container_auth_data.present
            k == IF docker_auth THEN 3 ELSE 2
        IN  /\ new_args[1] = Str(config.process_isolation_executable)
            /\ docker_auth =>
                   new_args[2] = PathArg("--config=", config.registry_auth_path)
            /\ new_args[k] = Str("run")
            /\ new_args[k + 1] = Str("--rm")
            /\ \A i \in DOMAIN new_args :
                   (new_args[i].t = "path" /\ new_args[i].s = "--config=") => i = 2

\* A vector returned for docker with registry credentials.
C11_Witness ==
    /\ b_pc = "done"
    /\ config.process_isolation_executable = "docker"
    /\ config.container_auth_data.present
    /\ new_args[2].s = "--config="


\* The plain strings of a list, as elements of the vector.
AsElements(list) == [i \in DOMAIN list |-> Str(list[i])]

\* C12: every vector returned ends with --env-file <artifact_dir>/env.list,
\* the flag of the engine (--quiet for podman, --user=<uid> for docker, never
\* both), --name <container_name>, the container_options of the caller, the
\* image and the wrapped command, in this order and unchanged; no mount
\* stands at or after --env-file.
C12_TailOrder ==
    b_pc = "done" =>
        LET engine_flag == IF config.process_isolation_executable = "podman"
                           THEN "--quiet" ELSE "--user=uid"
            tail == <<Str("--env-file"),
                      PathArg("", Path(config.artifact_dir.lead,
                                       config.artifact_dir.comps \o <<"env.list">>,
                                       FALSE)),
                      Str(engine_flag),
                      Str("--name"), Str(config.container_name)>>
                    \o AsElements(config.container_options)
                    \o <<Str(config.container_image)>>
                    \o AsElements(call.args)
            n == Len(new_args)
            first == n - Len(tail) + 1
        IN  /\ first >= 1
            /\ SubSeq(new_args, first, n) = tail
            /\ \A i \in 1..(first - 1) : new_args[i] # Str("--env-file")
            /\ \A i \in first..n : ~IsMount(new_args[i])
            /\ ~(InList(Str("--quiet"), new_args) /\ InList(Str("--user=uid"), new_args))

\* A vector returned for docker with an option of the caller, and mounts
\* before --env-file.
C12_Witness ==
    /\ b_pc = "done"
    /\ config.process_isolation_executable = "docker"
    /\ config.container_options = <<"--network=host">>
    /\ ~NoMounts(new_args)
    /\ new_args[Len(new_args)] = Str("pb.yml")

\* The entry of container_volume_mounts has no ':' separator.
Malformed(mapping) == mapping.n < 2

\* C13: a malformed entry of container_volume_mounts makes default_args fail
\* with ConfigurationError, and no vector is returned.
C13_MalformedMountRejected ==
    [][(/\ b_pc = "L105"
        /\ \E k \in DOMAIN config.container_volume_mounts :
               Malformed(config.container_volume_mounts[k])) =>
           (b_pc' = "raised" /\ b_exc' = "ConfigurationError")]_vars

\* The fields of the configuration other than those of the set keep their
\* values in the step.
FieldsKeptExcept(fields) ==
    \A f \in (DOMAIN config) \ fields : config'[f] = config[f]

\* C18, as stated: default_args writes no field of the configuration other
\* than registry_auth_path and container_name: cwd, env, the command, the
\* volume mounts and the options keep their values, in runs that return and
\* in runs that raise.
C18_ConfigReadOnly ==
    [][FieldsKeptExcept({"registry_auth_path", "container_name"})]_vars

\* C18, amended: default_args writes three fields of the configuration and
\* no other: cwd, set at line 53 to the working directory given to --workdir;
\* registry_auth_path, set when there are registry credentials; and the two
\* entries of env, set to the registries.conf path when verify_ssl is False.
\* container_name, the command, the volume mounts and the options keep their
\* values, in runs that return and in runs that raise.
C18_ConfigWrites ==
    [][/\ FieldsKeptExcept({"cwd", "env", "registry_auth_path"})
       /\ config'.cwd # config.cwd =>
              /\ b_pc = "L43" /\ b_pc' = "L59"
              /\ new_args'[Len(new_args')] = PathArg("", config'.cwd)
       /\ b_pc' = "raised" => config' = config
       /\ config'.registry_auth_path # config.registry_auth_path =>
              b_pc = "L91" /\ config.container_auth_data.present
       /\ config'.env # config.env =>
              /\ b_pc = "L91"
              /\ config.container_auth_data.present
              /\ config.container_auth_data.verify_ssl = "false"]_vars

\* A vector returned after all three fields were written.
C18_Witness ==
    /\ b_pc = "done"
    /\ config.host_cwd = NoPath
    /\ config.cwd = Abs(<<"runner", "project">>)
    /\ config.registry_auth_path # NoPath
    /\ config.env.REGISTRIES_CONFIG_PATH # NoPath
    /\ config.container_name = "ansible_runner_ident"

\* The mount of the whole private data directory: <private_data_dir>/:/runner/:Z
DataDirMount ==
    MountStr([config.private_data_dir EXCEPT !.trail = TRUE],
             Path(1, <<"runner">>, TRUE), ":Z")

\* The mount is one that default_args makes in every mode: of the host
\* working directory, of the private data directory, or of an entry of
\* container_volume_mounts.
MountOfEveryMode(m) ==
    \/ m = DataDirMount
    \/ /\ config.container_workdir = NoPath
       /\ config.host_cwd # NoPath
       /\ m = MountStr([config.host_cwd EXCEPT !.trail = TRUE],
                       [config.host_cwd EXCEPT !.trail = TRUE], "")
    \/ \E k \in DOMAIN config.container_volume_mounts :
           /\ ~Malformed(config.container_volume_mounts[k])
           /\ m.a = SrcDir(fs, config.container_volume_mounts[k].src)
           /\ m.b = DstDir(fs, config.container_workdir,
                           config.container_volume_mounts[k].src,
                           config.container_volume_mounts[k].dst)

ArtifactsDir == Canon(config.private_data_dir) \o <<"artifacts">>

\* What the vector of a build in mode NONE never holds: a mount other than
\* those of every mode (so no mount to /runner/artifacts/, no inferred mount,
\* no automount), an -e of the automount pass, a namespace flag of podman.
NoneModeVector ==
    /\ \A i \in DOMAIN new_args :
           /\ IsMount(new_args[i]) =>
                  /\ MountOfEveryMode(new_args[i])
                  /\ new_args[i].b # Path(1, <<"runner", "artifacts">>, TRUE)
           /\ new_args[i] \notin {Str("-e"), Str("--group-add=root"), Str("--ipc=host")}
    /\ b_pc \notin {"L61", "L64", "L66", "L71"}
    /\ b_pc = "done" => ArtifactsDir \in fs.dirs

\* C19: in execution mode NONE default_args only makes sure that
\* <private_data_dir>/artifacts exists: the vector gets no mount to
\* /runner/artifacts, no inferred mount, no automount and no namespace flag of
\* podman.  In every mode a vector returned holds the mount
\* <private_data_dir>/:/runner/:Z.
C19_NoneModeOnlyArtifactsDir ==
    /\ [](call.execution_mode = "NONE" => NoneModeVector)
    /\ [](b_pc = "done" => InList(DataDirMount, new_args))
    /\ [][(b_pc \in {"L59", "L83"} /\ call.execution_mode = "NONE") =>
              /\ new_args' = new_args
              /\ b_pc' = IF b_pc = "L59" THEN "L83" ELSE "L89"
              /\ fs'.files = fs.files
              /\ fs'.dirs = IF b_pc = "L59" THEN fs.dirs
                            ELSE fs.dirs \cup {ArtifactsDir}]_vars

\* A vector returned in mode NONE for podman, with an inventory option in the
\* command line and an agent socket in the environment.
C19_Witness ==
    /\ b_pc = "done"
    /\ call.execution_mode = "NONE"
    /\ config.process_isolation_executable = "podman"
    /\ call.cmdline_args = <<"-i", "/d/inv.yml", "pb.yml">>
    /\ "SSH_AUTH_SOCK" \in DOMAIN os_environ
    /\ InList(DataDirMount, new_args)
    /\ ArtifactsDir \in fs.dirs

\* The command line without its inventory options and their values.
RECURSIVE WithoutInventoryPairs(_)
WithoutInventoryPairs(tokens) ==
    IF tokens = <<>> THEN <<>>
    ELSE IF tokens[1] \in Range(inventory_file_options)
         THEN WithoutInventoryPairs(SubSeq(tokens, 3, Len(tokens)))
         ELSE <<tokens[1]>> \o WithoutInventoryPairs(Tail(tokens))

\* The playbook of a list of remaining tokens: the token when one remains;
\* otherwise the first token unless it is a flag; otherwise the first later
\* token that is not a flag and whose preceding token, at that position, is
\* not a flag; "" when there is none.
PlaybookOf(rest) ==
    IF Len(rest) = 1 \/ FirstChar(rest[1]) # "-" THEN rest[1]
    ELSE LET found == {j \in 2..Len(rest) :
                           /\ FirstChar(rest[j]) # "-"
                           /\ FirstChar(rest[j - 1]) # "-"}
         IN  IF found = {} THEN ""
             ELSE rest[CHOOSE j \in found : \A m \in found : j <= m]

\* C20: for the command line of ansible-playbook, _get_playbook_path returns
\* the single token that remains after the inventory options and their values
\* are removed; otherwise the first token unless it is a flag; otherwise the
\* first later token that is not a flag and is not preceded, at its position,
\* by a flag, also when a token occurs more than once.  Stated of the command
\* lines in which every option has a value and a token remains.
C20_PlaybookPathChosen ==
    (/\ b_pc = "L61"
     /\ ContainsAnsiblePlaybook(config.command[1])
     /\ OptionsHaveValues(call.cmdline_args)
     /\ WithoutInventoryPairs(call.cmdline_args) # <<>>) =>
        GetPlaybookPath(call.cmdline_args) =
            [exc |-> "none", none |-> FALSE,
             val |-> PlaybookOf(WithoutInventoryPairs(call.cmdline_args))]

(***************************************************************************)
(* Properties of the registry credentials.                                 *)
(***************************************************************************)
\* The directory a returned pair lies in.
ReturnedDir(r) ==
    IF r.executable = "docker" THEN r.auth_path ELSE Dirname(r.auth_path)

\* The file of the name exists in the directory and holds the content.
HoldsFile(dir, f, content) ==
    \E name \in TmpNames :
        /\ dir = TmpDir(name)
        /\ a_tmp[name].exists
        /\ a_tmp[name].files[f].exists
        /\ a_tmp[name].files[f].content = content

\* C14: _generate_container_auth_dir returns for docker the temporary
\* directory it made, which holds config.json, and for podman the path of
\* auth.json in that directory; the second value is the path of
\* registries.conf when verify_ssl is False and None in every other case; the
\* directory is made by the call, and no two calls return the same directory.
C14_AuthDirReturned ==
    /\ [](a_pc = "idle" =>
            /\ \A i \in DOMAIN a_log :
                   LET r == a_log[i]
                       dir == ReturnedDir(r)
                   IN  /\ r.executable = "docker" =>
                              /\ r.auth_path = dir
                              /\ HoldsFile(dir, "config.json", AuthJson)
                       /\ r.executable = "podman" =>
                              /\ r.auth_path = Path(1, dir.comps \o <<"auth.json">>, FALSE)
                              /\ HoldsFile(dir, "auth.json", AuthJson)
                       /\ IF r.auth_data.verify_ssl = "false"
                          THEN /\ r.registries_conf_path =
                                      Path(1, dir.comps \o <<"registries.conf">>, FALSE)
                               /\ HoldsFile(dir, "registries.conf", RegistriesConf)
                          ELSE r.registries_conf_path = NoPath
            /\ \A i, j \in DOMAIN a_log :
                   i # j => ReturnedDir(a_log[i]) # ReturnedDir(a_log[j]))
    /\ [][a_pc = "L269" =>
              /\ ~a_tmp[a_locals'.path].exists
              /\ a_tmp'[a_locals'.path].exists]_vars
    /\ [][a_pc = "L296" =>
              ReturnedDir(a_log'[Len(a_log')]) = TmpDir(a_locals.path)]_vars

\* The calls have returned: one of them for docker with a verify_ssl that
\* holds None, one for podman with verify_ssl False.
C14_Witness ==
    /\ a_pc = "idle"
    /\ Len(a_log) = MaxAuthCalls
    /\ \E i, j \in DOMAIN a_log :
           /\ a_log[i].executable = "docker"
           /\ a_log[i].auth_data.verify_ssl = "none"
           /\ a_log[j].executable = "podman"
           /\ a_log[j].auth_data.verify_ssl = "false"
           /\ a_log[j].registries_conf_path # NoPath

(***************************************************************************)
(* Properties of dump_artifacts.                                           *)
(***************************************************************************)
\* The inventory of the configuration is a string spelling an absolute path.
AbsoluteInventory ==
    /\ d_config.inventory.k = "str"
    /\ d_config.inventory.s \in {"/d/inv.yml", "/d", "/nowhere/hosts"}

\* The path of a list of components is a file or a directory of the host.
OnDisk(comps) == comps \in d_fs.dirs \cup d_fs.files

\* C15, as stated: for an inventory that is an absolute path string, whether
\* or not the path exists, dump_artifact is not called and config.inventory
\* keeps its value.
C15_AbsoluteInventoryUntouched ==
    [][(d_pc = "L52" /\ AbsoluteInventory) =>
           (d_calls' = d_calls /\ d_config'.inventory = d_config.inventory)]_vars

\* C15, amended: for an inventory that is an absolute path string naming a
\* file or a directory that exists, dump_artifact is not called, nothing is
\* written and config.inventory keeps its value.
C15_ExistingAbsoluteInventoryUntouched ==
    [][(/\ d_pc = "L52"
        /\ AbsoluteInventory
        /\ \/ d_config.inventory.s = "/d/inv.yml" /\ OnDisk(<<"d", "inv.yml">>)
           \/ d_config.inventory.s = "/d" /\ OnDisk(<<"d">>)
           \/ d_config.inventory.s = "/nowhere/hosts" /\ OnDisk(<<"nowhere", "hosts">>)) =>
           (d_calls' = d_calls /\ d_fs' = d_fs /\ d_config' = d_config)]_vars

\* dump_artifacts has returned for the inventory /d/inv.yml, a file of the
\* host: no call was made and the inventory is the string given.
C15_Witness ==
    /\ d_pc = "done"
    /\ d_config.inventory = Text("/d/inv.yml")
    /\ OnDisk(<<"d", "inv.yml">>)
    /\ d_calls = <<>>

EnvDir == Path(1, <<"data", "env">>, FALSE)

\* The calls of dump_artifact made for the file env/<key>.
EnvCalls(calls_made, key) ==
    {n \in DOMAIN calls_made :
        calls_made[n].path = EnvDir /\ calls_made[n].filename = key}

\* The value of the key is None, an empty mapping or an empty string.
Empty(key) ==
    \/ d_config[key].k = "none"
    \/ d_config[key].k = "dict" /\ d_config[key].items = <<>>
    \/ d_config[key].k = "str" /\ d_config[key].s = ""

\* C16: the artifact of an env key is written exactly when
\* suppress_env_files is false, the value of the key is not empty and no file
\* exists at <private_data_dir>/env/<key>; it is written as JSON for the first
\* four keys and as it is for ssh_key and cmdline.  With suppress_env_files
\* no call is ever made for a file of env/, and a file that exists keeps its
\* content.
C16_EnvArtifactsWritten ==
    /\ [][\A i \in DOMAIN EnvKeys :
              LET key == EnvKeys[i]
                  file_seq == <<"data", "env", key>>
                  before == file_seq \in d_fs.files
                  written == EnvCalls(d_calls', key) # EnvCalls(d_calls, key)
              IN  /\ (d_pc = EnvPc(i) /\ d_pc' = EnvPc(i + 1)) =>
                         /\ written <=> (/\ ~d_config.suppress_env_files
                                          /\ ~Empty(key)
                                          /\ ~before)
                         /\ written =>
                                /\ d_calls' = Append(d_calls,
                                       [obj |-> IF i <= 4 THEN [k |-> "json", of |-> d_config[key]]
                                                ELSE d_config[key],
                                        path |-> EnvDir, filename |-> key])
                                /\ file_seq \in d_fs'.files
                                /\ d_fs'.content[file_seq] = d_calls'[Len(d_calls')].obj
                  /\ ~(d_pc = EnvPc(i) /\ d_pc' = EnvPc(i + 1)) => ~written
                  /\ before => /\ file_seq \in d_fs'.files
                               /\ d_fs'.content[file_seq] = d_fs.content[file_seq]]_vars
    /\ [](d_pc # "off" =>
            /\ d_config.suppress_env_files =>
                   \A n \in DOMAIN d_calls : d_calls[n].path # EnvDir
            /\ d_pc = "done" =>
                   \A i \in DOMAIN EnvKeys :
                       (~d_config.suppress_env_files /\ ~Empty(EnvKeys[i])) =>
                           <<"data", "env", EnvKeys[i]>> \in d_fs.files)

\* dump_artifacts has returned: it wrote passwords as JSON and ssh_key as it
\* is, and left alone envvars, whose file was there, and the empty cmdline.
C16_Witness ==
    /\ d_pc = "done"
    /\ ~d_config.suppress_env_files
    /\ d_config.envvars = Dict(<<<<"A", Text("b")>>>>)
    /\ d_config.cmdline = NoneV
    /\ d_fs.content[<<"data", "env", "envvars">>] = OldContent
    /\ EnvCalls(d_calls, "envvars") = {}
    /\ EnvCalls(d_calls, "cmdline") = {}
    /\ EnvCalls(d_calls, "passwords") # {}
    /\ d_fs.content[<<"data", "env", "passwords">>] = Json(d_config.passwords)

\* The play the configuration of a role asks for.
RolePlay ==
    LET with_vars == /\ d_config.role_vars.k = "dict"
                     /\ d_config.role_vars.items # <<>>
        role == IF with_vars
                THEN [k |-> "dict",
                      items |-> <<<<"name", d_config.role>>,
                                  <<"vars", d_config.role_vars>>>>]
                ELSE [k |-> "dict", items |-> <<<<"name", d_config.role>>>>]
        hosts == IF d_config.host_pattern \in {NoneV, Text("")}
                 THEN Text("all") ELSE d_config.host_pattern
        roles == [k |-> "list", elems |-> <<role>>]
    IN  [k |-> "dict",
         items |-> IF d_config.role_skip_facts
                   THEN <<<<"hosts", hosts>>, <<"roles", roles>>,
                          <<"gather_facts", FalseV>>>>
                   ELSE <<<<"hosts", hosts>>, <<"roles", roles>>>>]

\* The ANSIBLE_ROLES_PATH of a role: <private_data_dir>/roles, after
\* <roles_path>: when roles_path is given.
RolePathItem ==
    <<"ANSIBLE_ROLES_PATH",
      [k |-> "pathlist",
       paths |-> IF d_config.roles_path = NoneV
                 THEN <<Path(1, <<"data", "roles">>, FALSE)>>
                 ELSE <<d_config.roles_path.p, Path(1, <<"data", "roles">>, FALSE)>>]>>

\* The first call wrote the play of the role to project/main.json, which is
\* now the playbook of the configuration.
RolePlayWritten ==
    /\ d_calls # <<>>
    /\ d_calls[1] = [obj |-> [k |-> "json", of |-> [k |-> "list", elems |-> <<RolePlay>>]],
                     path |-> Path(1, <<"data", "project">>, FALSE),
                     filename |-> "main.json"]
    /\ d_config.playbook = PathV(Path(1, <<"data", "project", "main.json">>, FALSE))
    /\ d_fs.content[<<"data", "project", "main.json">>] = d_calls[1].obj

\* A call wrote env/envvars as the JSON of a mapping with ANSIBLE_ROLES_PATH.
RolesPathWritten ==
    \E n \in EnvCalls(d_calls, "envvars") :
        /\ d_calls[n].obj.k = "json"
        /\ \E i \in DOMAIN d_calls[n].obj.of.items :
               d_calls[n].obj.of.items[i] = RolePathItem

\* Nothing but the role is configured.
OnlyRole ==
    /\ d_config.inventory = NoneV
    /\ d_config.envvars.items = <<RolePathItem>>
    /\ \A i \in 2..Len(EnvKeys) : d_config[EnvKeys[i]] = NoneV

\* The file env/envvars was there before the call.
EnvvarsFileKept ==
    /\ <<"data", "env", "envvars">> \in d_fs.files
    /\ d_fs.content[<<"data", "env", "envvars">>] = OldContent

AnonReturned(p) ==
    /\ pc[p] = "idle"
    /\ filename[p] = "None"
    /\ fn[p] > 0
    /\ raised[p] = "none"

\* The file the call returned is the file of no other call in progress or
\* returned.
OwnFile(p) == \A q \in Procs \ {p} : fn[q] # fn[p]

\* C21, as stated: a call without a filename that returned took the sentinel
\* lock and wrote, whatever the content, the empty string included; the file
\* it names is its own and holds exactly the content.
C21_AnonymousAlwaysWritten ==
    \A p \in Procs :
        AnonReturned(p) =>
            /\ wrote[p]
            /\ OwnFile(p)
            /\ tmp_files[fn[p]].exists
            /\ tmp_files[fn[p]].content = obj[p]

\* C21, amended: a call without a filename that returned took the sentinel
\* lock and wrote exactly when the content is not the empty string (the file
\* mkstemp made is empty already); in both cases the file it names is its own,
\* has mode 0600 and holds exactly the content.
C21_AnonymousWrittenUnlessEmpty ==
    \A p \in Procs :
        AnonReturned(p) =>
            /\ wrote[p] <=> obj[p] # <<>>
            /\ OwnFile(p)
            /\ tmp_files[fn[p]] =
                   [exists |-> TRUE, content |-> obj[p], mode |-> "0600"]

\* One call returned for the empty string and one for another content.
C21_Witness ==
    \E p, q \in Procs :
        /\ AnonReturned(p) /\ obj[p] = <<>>
        /\ AnonReturned(q) /\ obj[q] # <<>> /\ wrote[q]

(***************************************************************************)
(* Properties of the permissions of the files written.                     *)
(***************************************************************************)
\* A file that holds anything can be read and written by its owner only.
OwnerOnly(f) == (f.exists /\ f.content # <<>>) => f.mode = "0600"

\* C25: in dump_artifact and in _generate_container_auth_dir the chmod to
\* owner read/write precedes the write of the content: in every state an
\* artifact file, a credential file or a registries.conf that holds content
\* has mode 0600.
C25_ContentOnlyInOwnerOnlyFiles ==
    /\ OwnerOnly(file)
    /\ a_pc # "off" =>
           \A name \in TmpNames, f \in AuthFiles : OwnerOnly(a_tmp[name].files[f])

\* A call has written the credentials and registries.conf, both with mode
\* 0600.
C25_Witness ==
    /\ a_pc = "L296"
    /\ \E f \in {"auth.json", "config.json"} :
           a_tmp[a_locals.path].files[f] =
               [exists |-> TRUE, mode |-> "0600", content |-> AuthJson]
    /\ a_tmp[a_locals.path].files["registries.conf"] =
           [exists |-> TRUE, mode |-> "0600", content |-> RegistriesConf]

====
